---- MODULE Spec2Model ----
(***************************************************************************)
(* ATSVG raster-to-vector tracing engine.                                  *)
(*                                                                         *)
(* Two implementations are modelled side by side:                          *)
(*   "browser"  src/js/imagetrace.js   (ImageTracer IIFE)                  *)
(*   "node"     src/examples/usage.js  (class ImageTracer)                 *)
(*                                                                         *)
(* A buffer is a sequence of RGBA pixels (data.length = 4 * Len(buffer)).  *)
(* JS arrays are 0-based, sequences here are 1-based: JS index i is i + 1. *)
(***************************************************************************)
EXTENDS Integers, Sequences, FiniteSets, TLC

VARIABLES
    impl,       \* which implementation runs: "browser" | "node"
    data,       \* the RGBA buffer handed to the quantizer
    numColors,  \* requested colour count
    pixels,     \* the quantizer's pixel population (after the alpha filter)
    boxes,      \* median-cut buckets
    qpc,        \* position in the quantizer: "start" | "loop" | "done"
    palette,    \* the palette returned
    path,       \* the point sequence handed to simplifyPath
    tolerance,  \* the tolerance handed to simplifyPath
    simplified, \* what simplifyPath returned: [ok, pts]
    spc,        \* position in the simplifier: "start" | "done"
    imgd,       \* the caller's image: [data, width, height]
    options,    \* the options of the trace calls
    tprocessed, \* the preprocessed pixels of the last trace call
    tpalette,   \* the palette of the last trace call
    tindexed,   \* the indexed image of the last trace call
    tlayers,    \* the layers of the last trace call (browser)
    results,    \* what each trace call returned, in call order
    file,       \* the file handed to getFileType: [name, type]
    fileType,   \* what the getFileType calls on it returned, in call order
    conv,       \* a converter instance: the options given to its constructor and this.options
    calls,      \* the convertBuffer calls made on it: the options given and the opts used
    disk,       \* the file system of a CLI run: path -> content
    cli,        \* the state of convertFiles: inputs, options, position, counters
    app,        \* the fields of the web app (ATSVGApp)
    timers,     \* the callbacks the web app has scheduled with setTimeout
    downloads,  \* the downloads the web app has triggered, in order
    walk,       \* the locals of tracePaths: scan position, current walk, paths
    colorRects  \* a createColorRects call of the node tracer: arguments and result

qvars == <<data, numColors, pixels, boxes, qpc, palette>>

svars == <<path, tolerance, simplified, spc>>

tvars == <<imgd, options, tprocessed, tpalette, tindexed, tlayers, results>>

fvars == <<file, fileType>>

cvars == <<conv, calls>>

dvars == <<disk, cli>>

avars == <<app, timers, downloads>>

wvars == <<walk>>

rvars == <<colorRects>>

\* the components added to the tracer: file types, converter options, the CLI,
\* the web app, the stepwise boundary walk and the rectangle builder
ovars == <<fvars, cvars, dvars, avars, wvars, rvars>>

vars == <<impl, data, numColors, pixels, boxes, qpc, palette,
          path, tolerance, simplified, spc,
          imgd, options, tprocessed, tpalette, tindexed, tlayers, results,
          file, fileType, conv, calls, disk, cli, app, timers, downloads, walk, colorRects>>

(***************************************************************************)
(* Bounds of the model                                                     *)
(***************************************************************************)
MaxPixels == 3
MaxColors == 4
MaxX == 2
MaxPathLen == 4
MaxImgPixels == 4
MaxRuns == 2
MaxSide == 3
MaxShades == 9
MaxInputs == 2
MaxPages == 2
MaxSegments == 2
MaxCalls == 2
MaxEvents == 3
MaxMaskPixels == 9
MaxRectPixels == 6

Impls == {"browser", "node"}

(* Pixel values the buffers are drawn from: two saturated opaque colours,  *)
(* a dark opaque colour with alpha exactly 128, a faint (alpha 1..127)     *)
(* white and a fully transparent pixel.                                    *)
Px(r, g, b, a) == [r |-> r, g |-> g, b |-> b, a |-> a]

PixelKinds ==
    { Px(255, 0, 0, 255), Px(0, 0, 255, 255), Px(0, 0, 0, 128),
      Px(255, 255, 255, 100), Px(0, 0, 0, 0) }

RECURSIVE SeqsUpTo(_, _)
SeqsUpTo(S, n) ==
    IF n = 0 THEN { <<>> }
    ELSE LET shorter == SeqsUpTo(S, n - 1)
         IN  shorter \cup { Append(s, x) : s \in { t \in shorter : Len(t) = n - 1 }, x \in S }

Buffers == SeqsUpTo(PixelKinds, MaxPixels)

ColorCounts == (-1) .. MaxColors

(***************************************************************************)
(* Arithmetic helpers                                                      *)
(***************************************************************************)
\* Math.round(num / den) for num >= 0, den > 0: floor(x + 1/2)
Round(num, den) == (2 * num + den) \div (2 * den)

Channels == <<"r", "g", "b">>

RECURSIVE SeqSum(_, _)
SeqSum(s, c) == IF s = <<>> THEN 0 ELSE s[1][c] + SeqSum(Tail(s), c)

ChanMax(box, c) == CHOOSE v \in { box[i][c] : i \in 1 .. Len(box) } :
                       \A j \in 1 .. Len(box) : box[j][c] <= v
ChanMin(box, c) == CHOOSE v \in { box[i][c] : i \in 1 .. Len(box) } :
                       \A j \in 1 .. Len(box) : box[j][c] >= v

(***************************************************************************)
(* Median cut                                                              *)
(***************************************************************************)
\* Array.prototype.sort with comparator a[c] - b[c]: a stable sort; the place
\* of element i counts the elements that sort before it
SortPlace(box, c, i) ==
    1 + Cardinality({ j \in 1 .. Len(box) :
                        \/ box[j][c] < box[i][c]
                        \/ (box[j][c] = box[i][c] /\ j < i) })

SortByChannel(box, c) ==
    [ k \in 1 .. Len(box) |->
        box[CHOOSE i \in 1 .. Len(box) : SortPlace(box, c, i) = k] ]

\* the scan for the (bucket, channel) of largest range; strict >, first found wins
RECURSIVE ScanBoxes(_, _, _)
ScanBoxes(bxs, k, best) ==
    IF k > 3 * Len(bxs) THEN best
    ELSE LET i   == ((k - 1) \div 3) + 1
             c   == Channels[((k - 1) % 3) + 1]
             box == bxs[i]
         IN  IF Len(box) < 2 THEN ScanBoxes(bxs, k + 1, best)
             ELSE LET range == ChanMax(box, c) - ChanMin(box, c)
                  IN  IF range > best.maxRange
                      THEN ScanBoxes(bxs, k + 1,
                               [maxRange |-> range, maxBox |-> i, maxChannel |-> c])
                      ELSE ScanBoxes(bxs, k + 1, best)

FindMaxRange(bxs) == ScanBoxes(bxs, 1, [maxRange |-> 0, maxBox |-> 1, maxChannel |-> "r"])

\* a faulty split point that leaves the first half empty
MidPointZero(box) == 0

\* const mid = Math.floor(box.length / 2)
MidPoint(box) == Len(box) \div 2

\* boxes.splice(maxBox, 1, box.slice(0, mid), box.slice(mid)), box already sorted
Splice(bxs, maxBox, box, mid) ==
    SubSeq(bxs, 1, maxBox - 1)
    \o << SubSeq(box, 1, mid), SubSeq(box, mid + 1, Len(box)) >>
    \o SubSeq(bxs, maxBox + 1, Len(bxs))

SplitSorted(bxs, maxBox, box) == Splice(bxs, maxBox, box, MidPoint(box))

SplitBox(bxs, sel) ==
    SplitSorted(bxs, sel.maxBox, SortByChannel(bxs[sel.maxBox], sel.maxChannel))

\* a faulty loop condition, <= for <, that splits once too often
LoopCondInclusive(im, bxs, n, pxs) ==
    IF im = "browser" THEN Len(bxs) <= n /\ Len(bxs) < Len(pxs)
    ELSE Len(bxs) <= n

\* the while condition of the splitting loop
LoopCond(im, bxs, n, pxs) ==
    IF im = "browser" THEN Len(bxs) < n /\ Len(bxs) < Len(pxs)
    ELSE Len(bxs) < n

\* the guard at the head of medianCut / quantizeColors
Degenerate(pxs, n) == Len(pxs) = 0 \/ n < 1

GrayFallback(im) ==
    IF im = "browser" THEN << [r |-> 128, g |-> 128, b |-> 128, a |-> 255] >>
    ELSE << [r |-> 128, g |-> 128, b |-> 128, count |-> 0] >>

\* browser: boxes.map(box => rounded average incl. alpha)
BoxColorBrowser(box) ==
    IF Len(box) = 0 THEN [r |-> 128, g |-> 128, b |-> 128, a |-> 255]
    ELSE [ r |-> Round(SeqSum(box, "r"), Len(box)),
           g |-> Round(SeqSum(box, "g"), Len(box)),
           b |-> Round(SeqSum(box, "b"), Len(box)),
           a |-> Round(SeqSum(box, "a"), Len(box)) ]

\* node: buckets.map(bucket => rounded average with count)
BoxColorNode(box) ==
    IF Len(box) = 0 THEN [r |-> 0, g |-> 0, b |-> 0, count |-> 0]
    ELSE [ r |-> Round(SeqSum(box, "r"), Len(box)),
           g |-> Round(SeqSum(box, "g"), Len(box)),
           b |-> Round(SeqSum(box, "b"), Len(box)),
           count |-> Len(box) ]

NonEmptyEntry(e) == e.count > 0

BoxesToPalette(im, bxs) ==
    IF im = "browser" THEN [ i \in 1 .. Len(bxs) |-> BoxColorBrowser(bxs[i]) ]
    ELSE SelectSeq([ i \in 1 .. Len(bxs) |-> BoxColorNode(bxs[i]) ], NonEmptyEntry)

\* the alpha filter that builds the quantizer's pixel population
BrowserCounts(p) == p.a > 0
NodeCounts(p)    == p.a > 128
NodePixel(p)     == [r |-> p.r, g |-> p.g, b |-> p.b]

Population(im, buf) ==
    IF im = "browser" THEN SelectSeq(buf, BrowserCounts)
    ELSE LET kept == SelectSeq(buf, NodeCounts)
         IN  [ i \in 1 .. Len(kept) |-> NodePixel(kept[i]) ]

\* quantize() returns this before medianCut is reached when nothing has alpha > 0
EmptyQuantize == << [r |-> 0, g |-> 0, b |-> 0, a |-> 0] >>

(***************************************************************************)
(* Path simplification (Ramer-Douglas-Peucker)                             *)
(*                                                                         *)
(* Distances are kept as exact squared rationals [num, den]; the code's    *)
(* sqrt and division are monotone, so every comparison the code makes on   *)
(* distances is made here on the squares, cross-multiplied.                *)
(***************************************************************************)
Pt(x, y) == [x |-> x, y |-> y]

GridPoints == { Pt(x, y) : x \in 0 .. MaxX, y \in {0, 2} }

Paths == SeqsUpTo(GridPoints, MaxPathLen)

Tolerances == {-1, 0, 1, 2}

Sq(v) == v * v

RatGt(a, b) == a.num * b.den > b.num * a.den

\* browser perpendicularDistance, squared: distance to the infinite line, or to
\* lineStart when the line is degenerate
SqPerpDist(p, s, e) ==
    LET dx == e.x - s.x
        dy == e.y - s.y
    IN  IF dx = 0 /\ dy = 0
        THEN [num |-> Sq(p.x - s.x) + Sq(p.y - s.y), den |-> 1]
        ELSE [num |-> Sq((p.x - s.x) * dy - (p.y - s.y) * dx), den |-> Sq(dx) + Sq(dy)]

\* the for loop of the browser simplifyPath; maxIdx is the JS (0-based) index
RECURSIVE ScanMaxDist(_, _, _)
ScanMaxDist(pts, i, best) ==
    IF i >= Len(pts) - 1 THEN best
    ELSE LET dist == SqPerpDist(pts[i + 1], pts[1], pts[Len(pts)])
         IN  IF RatGt(dist, best.maxDist)
             THEN ScanMaxDist(pts, i + 1, [maxDist |-> dist, maxIdx |-> i])
             ELSE ScanMaxDist(pts, i + 1, best)

\* a faulty test that lets a distance of up to tolerance + 1 pass
ExceedsToleranceLoose(sqDist, tol) ==
    IF tol < 0 THEN TRUE ELSE sqDist.num > Sq(tol + 1) * sqDist.den

\* maxDist > tolerance, maxDist being a non-negative distance
ExceedsTolerance(sqDist, tol) ==
    IF tol < 0 THEN TRUE ELSE sqDist.num > Sq(tol) * sqDist.den

\* a call that recurses on its own arguments never returns: the engine ends it
\* with RangeError (maximum call stack size exceeded)
StackOverflow == [ok |-> FALSE, pts |-> <<>>]

Returned(pts) == [ok |-> TRUE, pts |-> pts]

\* a faulty join that keeps the pivot of both halves
JoinHalvesKeepPivot(left, right) ==
    IF left.ok /\ right.ok
    THEN [ok |-> TRUE, pts |-> left.pts \o right.pts]
    ELSE [ok |-> FALSE, pts |-> <<>>]

\* left.slice(0, -1).concat(right); a RangeError of either call propagates
JoinHalves(left, right) ==
    IF left.ok /\ right.ok
    THEN Returned(SubSeq(left.pts, 1, Len(left.pts) - 1) \o right.pts)
    ELSE StackOverflow

NoMaxFound == [maxDist |-> [num |-> 0, den |-> 1], maxIdx |-> 0]

RECURSIVE SimplifyBrowser(_, _)
\* the part of simplifyPath after the scan, m being what the scan found
SimplifyAround(pts, tol, m) ==
    IF ExceedsTolerance(m.maxDist, tol)
    THEN IF m.maxIdx = 0
         THEN \* right = simplifyPath(points.slice(0), tolerance): the same call again
              StackOverflow
         ELSE JoinHalves(SimplifyBrowser(SubSeq(pts, 1, m.maxIdx + 1), tol),
                         SimplifyBrowser(SubSeq(pts, m.maxIdx + 1, Len(pts)), tol))
    ELSE Returned(<< pts[1], pts[Len(pts)] >>)

SimplifyBrowser(pts, tol) ==
    IF Len(pts) <= 2 THEN Returned(pts)
    ELSE SimplifyAround(pts, tol, ScanMaxDist(pts, 1, NoMaxFound))

\* node getSqSegDist: squared distance to the segment p1..p2
SqSegDist(p, p1, p2) ==
    LET dx  == p2.x - p1.x
        dy  == p2.y - p1.y
        dot == (p.x - p1.x) * dx + (p.y - p1.y) * dy
        len == Sq(dx) + Sq(dy)
    IN  IF (dx # 0 \/ dy # 0) /\ dot > len
        THEN [num |-> Sq(p.x - p2.x) + Sq(p.y - p2.y), den |-> 1]
        ELSE IF (dx # 0 \/ dy # 0) /\ dot > 0
        THEN [num |-> Sq((p.x - p1.x) * dy - (p.y - p1.y) * dx), den |-> len]
        ELSE [num |-> Sq(p.x - p1.x) + Sq(p.y - p1.y), den |-> 1]

\* the for loop of simplifyDPStep; first, last and index are JS (0-based) indices
RECURSIVE ScanMaxSqDist(_, _, _, _, _)
ScanMaxSqDist(pts, first, last, i, best) ==
    IF i >= last THEN best
    ELSE LET sqDist == SqSegDist(pts[i + 1], pts[first + 1], pts[last + 1])
         IN  IF RatGt(sqDist, best.maxSqDist)
             THEN ScanMaxSqDist(pts, first, last, i + 1, [maxSqDist |-> sqDist, index |-> i])
             ELSE ScanMaxSqDist(pts, first, last, i + 1, best)

RECURSIVE SimplifyDPStep(_, _, _, _, _)
\* the second recursive call of simplifyDPStep, after points[index] was pushed
StepRight(pts, index, last, sqTolerance, acc) ==
    IF last - index > 1 THEN SimplifyDPStep(pts, index, last, sqTolerance, acc) ELSE acc

\* the first recursive call of simplifyDPStep and the push of points[index]
StepLeft(pts, first, index, sqTolerance, acc) ==
    Append(IF index - first > 1
           THEN SimplifyDPStep(pts, first, index, sqTolerance, acc)
           ELSE acc,
           pts[index + 1])

\* the part of simplifyDPStep after the scan, m being what the scan found
StepAround(pts, first, last, sqTolerance, acc, m) ==
    IF m.maxSqDist.num > sqTolerance * m.maxSqDist.den
    THEN StepRight(pts, m.index, last, sqTolerance,
                   StepLeft(pts, first, m.index, sqTolerance, acc))
    ELSE acc

SimplifyDPStep(pts, first, last, sqTolerance, acc) ==
    StepAround(pts, first, last, sqTolerance, acc,
               ScanMaxSqDist(pts, first, last, first + 1,
                   [maxSqDist |-> [num |-> sqTolerance, den |-> 1], index |-> 0]))

SimplifyNode(pts, tol) ==
    IF Len(pts) <= 2 THEN Returned(pts)
    ELSE Returned(Append(SimplifyDPStep(pts, 0, Len(pts) - 1, Sq(tol), << pts[1] >>),
                         pts[Len(pts)]))

SimplifyPath(im, pts, tol) ==
    IF im = "browser" THEN SimplifyBrowser(pts, tol) ELSE SimplifyNode(pts, tol)


(***************************************************************************)
(* The quantizer as a function (the same steps, iterated)                  *)
(***************************************************************************)
RECURSIVE MedianCutLoop(_, _, _, _)
\* the loop body, sel being what the scan found
SplitOrBreak(im, bxs, n, pxs, sel) ==
    IF sel.maxRange = 0 THEN bxs
    ELSE MedianCutLoop(im, SplitBox(bxs, sel), n, pxs)

MedianCutLoop(im, bxs, n, pxs) ==
    IF LoopCond(im, bxs, n, pxs)
    THEN SplitOrBreak(im, bxs, n, pxs, FindMaxRange(bxs))
    ELSE bxs

MedianCut(im, pxs, n) ==
    IF Degenerate(pxs, n) THEN GrayFallback(im)
    ELSE BoxesToPalette(im, MedianCutLoop(im, << pxs >>, n, pxs))

QuantizePopulation(im, pxs, n) ==
    IF im = "browser" /\ Len(pxs) = 0 THEN EmptyQuantize
    ELSE MedianCut(im, pxs, n)

Quantize(im, buf, n) == QuantizePopulation(im, Population(im, buf), n)

(***************************************************************************)
(* Preprocessing                                                           *)
(***************************************************************************)
\* data[idx] read past the end of the buffer is undefined
Undef == [r |-> -1, g |-> -1, b |-> -1, a |-> -1]

\* the pixel at 0-based pixel index i
ReadPx(buf, i) == IF i >= 0 /\ i < Len(buf) THEN buf[i + 1] ELSE Undef

\* luma in thousandths: 0.299 R + 0.587 G + 0.114 B
Luma1000(p) == 299 * p.r + 587 * p.g + 114 * p.b

GrayOf(p, gray) == [r |-> gray, g |-> gray, b |-> gray, a |-> p.a]

GrayPixel(p) == GrayOf(p, Round(Luma1000(p), 1000))

\* toGrayscale: the browser writes into imgd.data, node into a new array
ToGrayscale(buf) == [ i \in 1 .. Len(buf) |-> GrayPixel(buf[i]) ]

\* 0.299 * v + 0.587 * v + 0.114 * v is summed in IEEE doubles: for these gray
\* levels v the sum falls one unit in the last place below v (128 gives
\* 127.99999999999999), for every other gray level it is exactly v
GraysBelow ==
    {1, 2, 4, 8, 11, 13, 16, 22, 26, 27, 32, 39, 44, 51, 52, 54, 57, 59, 61, 64, 78, 81,
     88, 91, 95, 101, 102, 104, 108, 114, 115, 118, 122, 127, 128, 143, 149, 156, 157,
     162, 169, 175, 176, 182, 183, 190, 195, 202, 203, 204, 208, 209, 216, 223, 225, 228,
     230, 235, 236, 239, 241, 244, 249, 251, 254}

\* the sign of (the double `gray`) - (the exact luma); the coloured pixels of
\* this model have an exact double sum wherever their luma is a whole number
LumaSlip(p) == IF p.r = p.g /\ p.g = p.b /\ p.r \in GraysBelow THEN -1 ELSE 0

\* the double `gray` in half thousandths: the slip is smaller than any
\* difference between two exact lumas
Gray2000(p) == 2 * Luma1000(p) + LumaSlip(p)

\* browser: gray >= threshold ? 255 : 0
MonoPixelBrowser(p, threshold) ==
    GrayOf(p, IF Gray2000(p) >= 2000 * threshold THEN 255 ELSE 0)

\* node: gray > threshold ? 255 : 0
MonoPixelNode(p, threshold) ==
    GrayOf(p, IF Gray2000(p) > 2000 * threshold THEN 255 ELSE 0)

ToMonochrome(im, buf, threshold) ==
    [ i \in 1 .. Len(buf) |->
        IF im = "browser" THEN MonoPixelBrowser(buf[i], threshold)
        ELSE MonoPixelNode(buf[i], threshold) ]

\* the normalised Gaussian kernel of radius 1, in millionths:
\* exp(-x*x / 2) / (1 + 2 exp(-1/2)) for x = -1, 0, 1
KernelDen == 1000000
Kernel == << 274069, 451863, 274069 >>

ClampCoord(v, hi) == IF v < 0 THEN 0 ELSE IF v > hi THEN hi ELSE v

\* the value a Uint8ClampedArray element takes when the weighted sum is stored
ClampByte(v) == IF v > 255 THEN 255 ELSE v

StoreClamped(num) == ClampByte((2 * num + KernelDen) \div (2 * KernelDen))

\* one blurred pixel from its three taps; an undefined tap makes the sum NaN,
\* which is stored as 0
BlurTaps(taps) ==
    IF \E k \in 1 .. 3 : taps[k] = Undef
    THEN [r |-> 0, g |-> 0, b |-> 0, a |-> 0]
    ELSE [ c \in {"r", "g", "b", "a"} |->
             StoreClamped(taps[1][c] * Kernel[1] + taps[2][c] * Kernel[2]
                          + taps[3][c] * Kernel[3]) ]

\* horizontal pass: reads src at (clamped x + k - radius, y); writes only the
\* elements the target array has
BlurHorizontal(src, w, h) ==
    [ i \in 1 .. Len(src) |->
        IF i > w * h THEN src[i]
        ELSE BlurTaps([ k \in 1 .. 3 |->
                 ReadPx(src, ((i - 1) \div w) * w
                             + ClampCoord(((i - 1) % w) + k - 2, w - 1)) ]) ]

\* vertical pass: reads src at (x, clamped y + k - radius)
BlurVertical(src, w, h) ==
    [ i \in 1 .. Len(src) |->
        IF i > w * h THEN src[i]
        ELSE BlurTaps([ k \in 1 .. 3 |->
                 ReadPx(src, ClampCoord(((i - 1) \div w) + k - 2, h - 1) * w
                             + ((i - 1) % w)) ]) ]

\* blur(imgd, radius): the result is written back into imgd.data
Blur(buf, w, h, radius) ==
    IF radius < 1 THEN buf
    ELSE BlurVertical(BlurHorizontal(buf, w, h), w, h)

(***************************************************************************)
(* Indexer and layer separation                                            *)
(***************************************************************************)
SqColorDist(p, c) == Sq(p.r - c.r) + Sq(p.g - c.g) + Sq(p.b - c.b)

\* the inner loop over the palette: strict <, so the first minimum wins;
\* j and best.idx are JS (0-based) indices, best.dist = -1 stands for Infinity
Closer(best, dist, j) ==
    IF best.dist = -1 \/ dist < best.dist THEN [dist |-> dist, idx |-> j] ELSE best

RECURSIVE ScanPalette(_, _, _, _)
ScanPalette(p, pal, j, best) ==
    IF j >= Len(pal) THEN best.idx
    ELSE ScanPalette(p, pal, j + 1, Closer(best, SqColorDist(p, pal[j + 1]), j))

\* an undefined pixel passes the alpha test (undefined < 128 is false) and every
\* distance is NaN, so the index stays 0
IndexOfPixel(p, pal) ==
    IF p = Undef THEN 0
    ELSE IF p.a < 128 THEN -1
    ELSE ScanPalette(p, pal, 0, [dist |-> -1, idx |-> 0])

\* browser: one entry per pixel of the width x height grid
CreateIndexedImage(buf, w, h, pal) ==
    [ i \in 1 .. w * h |-> IndexOfPixel(ReadPx(buf, i - 1), pal) ]

\* node: one entry per pixel of the buffer
MapToPalette(buf, pal) ==
    [ i \in 1 .. Len(buf) |-> IndexOfPixel(buf[i], pal) ]

\* a faulty mask that also takes the pixels of later palette entries
LayerMaskAtLeast(indexed, colorIdx) ==
    [ i \in 1 .. Len(indexed) |-> IF indexed[i] >= colorIdx THEN 1 ELSE 0 ]

LayerMask(indexed, colorIdx) ==
    [ i \in 1 .. Len(indexed) |-> IF indexed[i] = colorIdx THEN 1 ELSE 0 ]

\* a faulty push that puts the new layer in front of the earlier ones
PushLayerFront(layers, layer, color) ==
    IF \E i \in 1 .. Len(layer) : layer[i] = 1
    THEN << [array |-> layer, color |-> color] >> \o layers
    ELSE layers

\* if (hasPixels) layers.push({array, ..., color: palette[colorIdx]})
PushLayer(layers, layer, color) ==
    IF \E i \in 1 .. Len(layer) : layer[i] = 1
    THEN Append(layers, [array |-> layer, color |-> color])
    ELSE layers

RECURSIVE LayersFrom(_, _, _, _)
LayersFrom(indexed, pal, colorIdx, layers) ==
    IF colorIdx >= Len(pal) THEN layers
    ELSE LayersFrom(indexed, pal, colorIdx + 1,
             PushLayer(layers, LayerMask(indexed, colorIdx), pal[colorIdx + 1]))

LayerSeparation(indexed, pal) == LayersFrom(indexed, pal, 0, <<>>)

(***************************************************************************)
(* Contour tracing (browser)                                               *)
(***************************************************************************)
\* direction vectors: right, down, left, up (dir is 0-based)
Dx == << 1, 0, -1, 0 >>
Dy == << 0, 1, 0, -1 >>

GetPixel(mask, w, h, x, y) ==
    IF x < 0 \/ x >= w \/ y < 0 \/ y >= h THEN 0 ELSE mask[y * w + x + 1]

IsEdge(mask, w, h, x, y) ==
    /\ GetPixel(mask, w, h, x, y) # 0
    /\ \/ GetPixel(mask, w, h, x - 1, y) = 0
       \/ GetPixel(mask, w, h, x + 1, y) = 0
       \/ GetPixel(mask, w, h, x, y - 1) = 0
       \/ GetPixel(mask, w, h, x, y + 1) = 0

\* newDir = (dir + 3 + i) % 4
TurnDir(dir, i) == (dir + 3 + i) % 4

\* a faulty test of the neighbour that accepts any set pixel
FitsAnySet(mask, w, h, cx, cy, nd) ==
    GetPixel(mask, w, h, cx + Dx[nd + 1], cy + Dy[nd + 1]) # 0

\* whether the neighbour in direction TurnDir(dir, i) is a set edge pixel
Fits(mask, w, h, cx, cy, nd) ==
    /\ GetPixel(mask, w, h, cx + Dx[nd + 1], cy + Dy[nd + 1]) # 0
    /\ IsEdge(mask, w, h, cx + Dx[nd + 1], cy + Dy[nd + 1])

StepTo(cx, cy, nd) ==
    [found |-> TRUE, cx |-> cx + Dx[nd + 1], cy |-> cy + Dy[nd + 1], dir |-> nd]

\* the for loop that looks for the next edge pixel: the first i in 0..3 that fits
RECURSIVE NextEdgeFrom(_, _, _, _, _, _, _)
NextEdgeFrom(mask, w, h, cx, cy, dir, i) ==
    IF i >= 4 THEN [found |-> FALSE, cx |-> cx, cy |-> cy, dir |-> dir]
    ELSE IF Fits(mask, w, h, cx, cy, TurnDir(dir, i)) THEN StepTo(cx, cy, TurnDir(dir, i))
    ELSE NextEdgeFrom(mask, w, h, cx, cy, dir, i + 1)

NextEdge(mask, w, h, cx, cy, dir) == NextEdgeFrom(mask, w, h, cx, cy, dir, 0)

MaxSteps(w, h) == w * h * 4

\* the body of the do-while loop, nxt being what the for loop found
Advance(w, wk, nxt) ==
    [ cx      |-> nxt.cx,
      cy      |-> nxt.cy,
      dir     |-> nxt.dir,
      found   |-> nxt.found,
      steps   |-> IF nxt.found THEN wk.steps + 1 ELSE wk.steps,
      path    |-> Append(wk.path, Pt(wk.cx, wk.cy)),
      visited |-> [wk.visited EXCEPT ![wk.cy * w + wk.cx + 1] = 1] ]

WalkStep(mask, w, h, wk) == Advance(w, wk, NextEdge(mask, w, h, wk.cx, wk.cy, wk.dir))

\* a faulty loop test that goes on as long as a neighbour was found
WalkWhileFound(w, h, startX, startY, wk) == wk.found

\* do { ... } while ((cx !== startX || cy !== startY) && steps < maxSteps)
WalkContinues(w, h, startX, startY, wk) ==
    /\ wk.found
    /\ wk.cx # startX \/ wk.cy # startY
    /\ wk.steps < MaxSteps(w, h)

\* wk is the walk after a pass through the loop body
RECURSIVE WalkFrom(_, _, _, _, _, _)
WalkFrom(mask, w, h, startX, startY, wk) ==
    IF WalkContinues(w, h, startX, startY, wk)
    THEN WalkFrom(mask, w, h, startX, startY, WalkStep(mask, w, h, wk))
    ELSE wk

WalkStart(x, y, visited) ==
    [cx |-> x, cy |-> y, dir |-> 0, found |-> TRUE, steps |-> 0,
     path |-> <<>>, visited |-> visited]

\* the walk that starts at (x, y)
Walk(mask, w, h, x, y, visited) ==
    WalkFrom(mask, w, h, x, y, WalkStep(mask, w, h, WalkStart(x, y, visited)))

\* if (path.length >= options.pathomit) paths.push(path)
KeepPath(acc, wk, pathomit) ==
    [ visited |-> wk.visited,
      paths   |-> IF Len(wk.path) >= pathomit THEN Append(acc.paths, wk.path)
                  ELSE acc.paths ]

StartsWalk(mask, w, h, i, visited) ==
    /\ GetPixel(mask, w, h, i % w, i \div w) # 0
    /\ visited[i + 1] = 0
    /\ IsEdge(mask, w, h, i % w, i \div w)

\* the scan over y, x; i is the 0-based pixel index y * w + x
RECURSIVE ScanContours(_, _, _, _, _, _)
ScanContours(mask, w, h, pathomit, i, acc) ==
    IF i >= w * h THEN acc.paths
    ELSE IF StartsWalk(mask, w, h, i, acc.visited)
    THEN ScanContours(mask, w, h, pathomit, i + 1,
             KeepPath(acc, Walk(mask, w, h, i % w, i \div w, acc.visited), pathomit))
    ELSE ScanContours(mask, w, h, pathomit, i + 1, acc)

TracePaths(mask, w, h, pathomit) ==
    ScanContours(mask, w, h, pathomit, 0,
                 [visited |-> [ i \in 1 .. w * h |-> 0 ], paths |-> <<>>])

(***************************************************************************)
(* Document emission (browser)                                             *)
(***************************************************************************)
RECURSIVE Pow10(_)
Pow10(n) == IF n = 0 THEN 1 ELSE 10 * Pow10(n - 1)

\* (val * scale).toFixed(round) for an integer product: the digits, as a count of
\* units of 10^-round, and the number of decimals printed
ToFixed(val, scale, round) == [units |-> val * scale * Pow10(round), decimals |-> round]

FormatPoints(pts, o) ==
    [ i \in 1 .. Len(pts) |->
        [ x |-> ToFixed(pts[i].x, o.scale, o.roundcoords),
          y |-> ToFixed(pts[i].y, o.scale, o.roundcoords) ] ]

\* the part of pathToSvg after simplifyPath; a RangeError propagates
SvgOfSimplified(simp, o) ==
    IF ~simp.ok THEN StackOverflow
    ELSE IF Len(simp.pts) < 2 THEN Returned(<<>>)
    ELSE Returned(FormatPoints(simp.pts, o))

\* pathToSvg: the M/L points of the d attribute; <<>> is the empty string
PathToSvg(pts, o) ==
    IF Len(pts) = 0 THEN Returned(<<>>)
    ELSE SvgOfSimplified(SimplifyBrowser(pts, o.ltres), o)

\* if (d) svg += <path fill=... d=.../>; els is [ok, pts]: the elements so far
AddElement(els, color, d) ==
    IF ~els.ok \/ ~d.ok THEN StackOverflow
    ELSE IF d.pts # <<>> THEN Returned(Append(els.pts, [fill |-> color, d |-> d.pts]))
    ELSE els

\* for (const path of paths)
RECURSIVE LayerElements(_, _, _, _, _)
LayerElements(paths, color, o, k, els) ==
    IF k > Len(paths) THEN els
    ELSE LayerElements(paths, color, o, k + 1, AddElement(els, color, PathToSvg(paths[k], o)))

\* for (const layer of layers)
RECURSIVE AllElements(_, _, _, _, _, _)
AllElements(layers, w, h, o, k, els) ==
    IF k > Len(layers) THEN els
    ELSE AllElements(layers, w, h, o, k + 1,
             LayerElements(TracePaths(layers[k].array, w, h, o.pathomit),
                           layers[k].color, o, 1, els))

Document(doc) == [kind |-> "document", doc |-> doc]
Thrown(name)  == [kind |-> "error", doc |-> name]

SvgOfElements(els, width, height, o) ==
    IF ~els.ok THEN Thrown("RangeError")
    ELSE Document(
           [ width    |-> Round(width * o.scale, 1),
             height   |-> Round(height * o.scale, 1),
             viewBox  |-> o.viewbox,
             desc     |-> o.desc,
             elements |-> els.pts ])

GenerateSvg(layers, width, height, o) ==
    SvgOfElements(AllElements(layers, width, height, o, 1, Returned(<<>>)), width, height, o)

(***************************************************************************)
(* Rectangle merging and document emission (node)                          *)
(***************************************************************************)
\* indexed[idx] === colorIdx, false when idx is past the end (undefined)
IsColor(indexed, width, x, y, colorIdx) ==
    /\ x < width
    /\ y * width + x < Len(indexed)
    /\ indexed[y * width + x + 1] = colorIdx

\* the inner loop over x = 0 .. width of one row
RECURSIVE RowRuns(_, _, _, _, _, _)
RowRuns(indexed, width, y, colorIdx, x, runStart) ==
    IF x > width THEN <<>>
    ELSE IF IsColor(indexed, width, x, y, colorIdx) /\ runStart = -1
    THEN RowRuns(indexed, width, y, colorIdx, x + 1, x)
    ELSE IF ~IsColor(indexed, width, x, y, colorIdx) /\ runStart # -1
    THEN << [x |-> runStart, y |-> y, w |-> x - runStart, h |-> 1] >>
         \o RowRuns(indexed, width, y, colorIdx, x + 1, -1)
    ELSE RowRuns(indexed, width, y, colorIdx, x + 1, runStart)

RECURSIVE AllRuns(_, _, _, _, _)
AllRuns(indexed, width, height, colorIdx, y) ==
    IF y >= height THEN <<>>
    ELSE RowRuns(indexed, width, y, colorIdx, 0, -1)
         \o AllRuns(indexed, width, height, colorIdx, y + 1)

\* rects.sort((a, b) => a.y - b.y || a.x - b.x), stable
RectLeq(a, b) == a.y < b.y \/ (a.y = b.y /\ a.x <= b.x)

RectInsert(sorted, rc) ==
    LET k == Cardinality({ j \in 1 .. Len(sorted) : RectLeq(sorted[j], rc) })
    IN  SubSeq(sorted, 1, k) \o << rc >> \o SubSeq(sorted, k + 1, Len(sorted))

RECURSIVE SortRects(_)
SortRects(rects) ==
    IF rects = <<>> THEN <<>>
    ELSE RectInsert(SortRects(SubSeq(rects, 1, Len(rects) - 1)), rects[Len(rects)])

\* a faulty test that merges rects of different widths
CanMergeAnyWidth(current, rect) ==
    rect.x = current.x /\ rect.y = current.y + current.h

\* can merge if same x and width, and adjacent y
CanMerge(current, rect) ==
    rect.x = current.x /\ rect.w = current.w /\ rect.y = current.y + current.h

\* the merge loop: current absorbs the next rect when it continues it downwards
RECURSIVE MergeFrom(_, _, _)
MergeFrom(rects, i, current) ==
    IF i > Len(rects) THEN << current >>
    ELSE IF CanMerge(current, rects[i])
    THEN MergeFrom(rects, i + 1, [current EXCEPT !.h = current.h + rects[i].h])
    ELSE << current >> \o MergeFrom(rects, i + 1, rects[i])

MergeSorted(sorted) == MergeFrom(sorted, 2, sorted[1])

MergeRects(rects) ==
    IF Len(rects) = 0 THEN rects ELSE MergeSorted(SortRects(rects))

CreateColorRects(indexed, width, height, colorIdx) ==
    MergeRects(AllRuns(indexed, width, height, colorIdx, 0))

\* if (rects.length > 0) svg += <g fill=...> ... </g>
AddGroup(groups, color, rects) ==
    IF Len(rects) > 0
    THEN Append(groups, [ fill   |-> [r |-> color.r, g |-> color.g, b |-> color.b],
                          asPath |-> Len(rects) > 100,
                          rects  |-> rects ])
    ELSE groups

\* the <g> groups of the node document; i is the 0-based palette index
RECURSIVE ColorGroups(_, _, _, _, _, _)
ColorGroups(indexed, width, height, pal, i, groups) ==
    IF i >= Len(pal) THEN groups
    ELSE ColorGroups(indexed, width, height, pal, i + 1,
             AddGroup(groups, pal[i + 1], CreateColorRects(indexed, width, height, i)))

(***************************************************************************)
(* The trace pipeline                                                      *)
(***************************************************************************)
\* the colour-mode step of trace
ApplyColorMode(im, buf, o) ==
    IF o.colorMode = "grayscale" THEN ToGrayscale(buf)
    ELSE IF o.colorMode = "monochrome" THEN ToMonochrome(im, buf, o.threshold)
    ELSE buf

\* the pixels the rest of the pipeline works on; only the browser tracer blurs
Preprocess(im, buf, w, h, o) ==
    IF im = "browser" /\ o.blurradius > 0
    THEN ApplyColorMode(im, Blur(buf, w, h, o.blurradius), o)
    ELSE ApplyColorMode(im, buf, o)

\* a faulty palette size that does not force 2 in monochrome mode
PaletteSizeRequested(o) == o.numberofcolors

\* monochrome forces two colours
PaletteSize(o) == IF o.colorMode = "monochrome" THEN 2 ELSE o.numberofcolors

\* browser: createIndexedImage over the grid; node: mapToPalette over the buffer
IndexPixels(im, buf, w, h, pal) ==
    IF im = "browser" THEN CreateIndexedImage(buf, w, h, pal) ELSE MapToPalette(buf, pal)

\* only the browser tracer builds layer masks
SeparateLayers(im, indexed, pal) ==
    IF im = "browser" THEN LayerSeparation(indexed, pal) ELSE <<>>

\* the node document: width, height, viewBox, title and one group per colour
NodeSvg(indexed, width, height, pal) ==
    Document([ width    |-> width,
               height   |-> height,
               viewBox  |-> TRUE,
               desc     |-> TRUE,
               elements |-> ColorGroups(indexed, width, height, pal, 0, <<>>) ])

Emit(im, layers, indexed, pal, width, height, o) ==
    IF im = "browser" THEN GenerateSvg(layers, width, height, o)
    ELSE NodeSvg(indexed, width, height, pal)

(***************************************************************************)
(* The quantizer as a state machine                                        *)
(***************************************************************************)
QIdle ==
    /\ data = <<>>
    /\ numColors = 0
    /\ pixels = <<>>
    /\ boxes = <<>>
    /\ qpc = "idle"
    /\ palette = <<>>

TIdle ==
    /\ imgd = [data |-> <<>>, width |-> 0, height |-> 0]
    /\ options = [colorMode |-> "color"]
    /\ tprocessed = <<>>
    /\ tpalette = <<>>
    /\ tindexed = <<>>
    /\ tlayers = <<>>
    /\ results = <<>>

SIdle ==
    /\ path = <<>>
    /\ tolerance = 0
    /\ simplified = [ok |-> TRUE, pts |-> <<>>]
    /\ spc = "idle"

FIdle ==
    /\ file = [name |-> <<>>, type |-> ""]
    /\ fileType = <<>>

CIdle ==
    /\ conv = <<>>
    /\ calls = <<>>

DIdle ==
    /\ disk = <<>>
    /\ cli = <<>>

AIdle ==
    /\ app = <<>>
    /\ timers = {}
    /\ downloads = <<>>

WIdle == walk = [pc |-> "idle"]

RIdle == colorRects = [pc |-> "idle"]

OIdle == FIdle /\ CIdle /\ DIdle /\ AIdle /\ WIdle /\ RIdle

QInit ==
    /\ impl \in Impls
    /\ data = <<>>
    /\ numColors = 0
    /\ pixels = <<>>
    /\ boxes = <<>>
    /\ qpc = "start"
    /\ palette = <<>>
    /\ SIdle
    /\ TIdle
    /\ OIdle

\* quantize / getPalette called with a buffer and a colour count: build the
\* population, then the head of medianCut
QuantizeCall(buf, n) ==
    /\ data' = buf
    /\ numColors' = n
    /\ pixels' = Population(impl, buf)
    /\ IF impl = "browser" /\ Len(pixels') = 0
       THEN /\ palette' = EmptyQuantize
            /\ boxes' = <<>>
            /\ qpc' = "done"
       ELSE IF Degenerate(pixels', n)
       THEN /\ palette' = GrayFallback(impl)
            /\ boxes' = <<>>
            /\ qpc' = "done"
       ELSE /\ boxes' = << pixels' >>
            /\ palette' = palette
            /\ qpc' = "loop"

QuantizeStart ==
    /\ qpc = "start"
    /\ \E buf \in Buffers, n \in ColorCounts : QuantizeCall(buf, n)
    /\ UNCHANGED <<impl, svars, tvars, ovars>>

\* one iteration of the while loop that splits a bucket
MedianCutSplit ==
    /\ qpc = "loop"
    /\ LoopCond(impl, boxes, numColors, pixels)
    /\ \E sel \in { FindMaxRange(boxes) } :
           /\ sel.maxRange # 0
           /\ boxes' = SplitBox(boxes, sel)
    /\ UNCHANGED <<impl, data, numColors, pixels, qpc, palette, svars, tvars, ovars>>

\* the loop ends (condition false, or break on maxRange === 0) and the buckets
\* are averaged
MedianCutFinish ==
    /\ qpc = "loop"
    /\ \/ ~LoopCond(impl, boxes, numColors, pixels)
       \/ FindMaxRange(boxes).maxRange = 0
    /\ palette' = BoxesToPalette(impl, boxes)
    /\ qpc' = "done"
    /\ UNCHANGED <<impl, data, numColors, pixels, boxes, svars, tvars, ovars>>

QNext == QuantizeStart \/ MedianCutSplit \/ MedianCutFinish

QuantSpec == QInit /\ [][QNext]_vars

QuantFair == QInit /\ [][QNext]_vars /\ WF_vars(QNext)

(***************************************************************************)
(* The simplifier applied to one path                                      *)
(***************************************************************************)
SInit ==
    /\ impl \in Impls
    /\ path \in Paths
    /\ tolerance \in Tolerances
    /\ simplified = [ok |-> TRUE, pts |-> <<>>]
    /\ spc = "start"
    /\ QIdle
    /\ TIdle
    /\ OIdle

Simplify ==
    /\ spc = "start"
    /\ simplified' = SimplifyPath(impl, path, tolerance)
    /\ spc' = "done"
    /\ UNCHANGED <<impl, path, tolerance, qvars, tvars, ovars>>

SNext == Simplify

SimplifySpec == SInit /\ [][SNext]_vars

(***************************************************************************)
(* Repeated trace calls on one image                                       *)
(***************************************************************************)
\* opaque red (dark), opaque yellow (light), fully transparent
ImgPixelKinds == { Px(255, 0, 0, 255), Px(255, 255, 0, 255), Px(0, 0, 0, 0) }

\* every buffer with every width x height that fits it, is one pixel short of it
\* or one pixel longer than it
Images ==
    { [data |-> b, width |-> w, height |-> h] :
        b \in SeqsUpTo(ImgPixelKinds, MaxImgPixels),
        w \in 1 .. MaxImgPixels, h \in 1 .. MaxImgPixels }

FitsRoughly(img) ==
    /\ img.width * img.height <= MaxImgPixels
    /\ img.width * img.height \in { Len(img.data) - 1, Len(img.data), Len(img.data) + 1 }

\* defaultOptions, with the options a caller sets drawn from small sets; the node
\* tracer reads only colorMode, numberofcolors and threshold
OptionSets(im) ==
    [ colorMode      : {"color", "grayscale", "monochrome"},
      numberofcolors : {1, 2, 3},
      blurradius     : IF im = "browser" THEN {0, 1} ELSE {0},
      pathomit       : IF im = "browser" THEN {1, 8} ELSE {8},
      threshold      : {128},
      ltres          : {1},
      scale          : {1},
      roundcoords    : {1},
      viewbox        : {FALSE},
      desc           : {FALSE} ]

TInit ==
    /\ impl \in Impls
    /\ imgd \in { img \in Images : FitsRoughly(img) }
    /\ options \in OptionSets(impl)
    /\ tprocessed = <<>>
    /\ tpalette = <<>>
    /\ tindexed = <<>>
    /\ tlayers = <<>>
    /\ results = <<>>
    /\ QIdle
    /\ SIdle
    /\ OIdle

\* one call of trace on the caller's image. The browser tracer preprocesses
\* imgd.data in place; the node tracer works on a copy.
TraceWith(o) ==
    /\ tprocessed' = Preprocess(impl, imgd.data, imgd.width, imgd.height, o)
    /\ imgd' = IF impl = "browser" THEN [imgd EXCEPT !.data = tprocessed'] ELSE imgd
    /\ tpalette' = Quantize(impl, tprocessed', PaletteSize(o))
    /\ tindexed' = IndexPixels(impl, tprocessed', imgd.width, imgd.height, tpalette')
    /\ tlayers' = SeparateLayers(impl, tindexed', tpalette')
    /\ results' = Append(results, Emit(impl, tlayers', tindexed', tpalette',
                                       imgd.width, imgd.height, o))
    /\ UNCHANGED <<impl, options, qvars, svars, ovars>>

Trace ==
    /\ Len(results) < MaxRuns
    /\ TraceWith(options)

TNext == Trace

TraceSpec == TInit /\ [][TNext]_vars

(***************************************************************************)
(* trace on images of uniform columns                                      *)
(***************************************************************************)
RedPx  == Px(255, 0, 0, 255)
BluePx == Px(0, 0, 255, 255)

\* the w x h image, row by row, whose column x has the colour cols[x + 1]
ColumnImage(w, h, cols) ==
    [ data   |-> [ i \in 1 .. w * h |-> cols[((i - 1) % w) + 1] ],
      width  |-> w,
      height |-> h ]

Scenes ==
    UNION { { ColumnImage(w, h, cols) : cols \in [1 .. w -> {RedPx, BluePx}] } :
            w \in 1 .. MaxSide, h \in 1 .. MaxSide }

SceneOptions(im) ==
    [ colorMode      : {"color"},
      numberofcolors : {1, 2},
      blurradius     : {0},
      pathomit       : IF im = "browser" THEN {1, 8} ELSE {8},
      threshold      : {128},
      ltres          : {1},
      scale          : IF im = "browser" THEN {1, 2} ELSE {1},
      roundcoords    : IF im = "browser" THEN {0, 1} ELSE {1},
      viewbox        : {FALSE},
      desc           : {FALSE} ]

SceneInit ==
    /\ impl \in Impls
    /\ imgd \in Scenes
    /\ options \in SceneOptions(impl)
    /\ tprocessed = <<>>
    /\ tpalette = <<>>
    /\ tindexed = <<>>
    /\ tlayers = <<>>
    /\ results = <<>>
    /\ QIdle
    /\ SIdle
    /\ OIdle

SceneSpec == SceneInit /\ [][TNext]_vars

(***************************************************************************)
(* The converters' trace mode: traceToSVG (browser) and traceImage (node)   *)
(***************************************************************************)
DefaultColorCount   == 16
PosterizeColorCount == 8

\* a || b for numbers: 0 (also: not given) is falsy
OrElse(a, b) == IF a = 0 THEN b ELSE a

MinOf(a, b) == IF a < b THEN a ELSE b

\* switch (options.traceMode) of traceToSVG
ColorModeOf(traceMode) ==
    IF traceMode \in {"grayscale", "monochrome"} THEN traceMode ELSE "color"

\* the traceOptions of traceToSVG, merged over defaultOptions by trace
BrowserTraceOptions(co) ==
    [ colorMode      |-> ColorModeOf(co.traceMode),
      numberofcolors |-> IF co.traceMode = "posterize"
                         THEN MinOf(OrElse(co.colorCount, PosterizeColorCount),
                                    PosterizeColorCount)
                         ELSE OrElse(co.colorCount, DefaultColorCount),
      blurradius     |-> OrElse(co.blurRadius, 0),
      pathomit       |-> 8,
      threshold      |-> OrElse(co.threshold, 128),
      ltres          |-> OrElse(co.pathSimplify, 1),
      scale          |-> 1,
      roundcoords    |-> 1,
      viewbox        |-> co.addViewBox,
      desc           |-> co.preserveMetadata ]

\* the opts of the node trace: { ...this.options, ...options }, the converter's
\* options given again as the call's options; the node trace has no posterize
\* case and reads traceMode, colorCount and threshold
NodeTraceOptions(co) ==
    [ colorMode      |-> co.traceMode,
      numberofcolors |-> co.colorCount,
      blurradius     |-> 0,
      pathomit       |-> 8,
      threshold      |-> co.threshold,
      ltres          |-> 1,
      scale          |-> 1,
      roundcoords    |-> 1,
      viewbox        |-> FALSE,
      desc           |-> FALSE ]

TraceOptions(im, co) ==
    IF im = "browser" THEN BrowserTraceOptions(co) ELSE NodeTraceOptions(co)

\* the options a caller gives a converter; colorCount 0 is a missing or zero
\* count
ConverterOptionSets ==
    [ traceMode        : {"color", "grayscale", "monochrome", "posterize"},
      colorCount       : {0, 1, PosterizeColorCount, PosterizeColorCount + 1, DefaultColorCount},
      blurRadius       : {0},
      threshold        : {128},
      pathSimplify     : {1},
      addViewBox       : {FALSE},
      preserveMetadata : {FALSE} ]

\* one row of n opaque pixels of n different reds
Gradient(n) ==
    [ data   |-> [ i \in 1 .. n |-> Px(25 * i, 0, 0, 255) ],
      width  |-> n,
      height |-> 1 ]

PosterInit ==
    /\ impl \in Impls
    /\ imgd \in { Gradient(n) : n \in 1 .. MaxShades }
    /\ options \in ConverterOptionSets
    /\ tprocessed = <<>>
    /\ tpalette = <<>>
    /\ tindexed = <<>>
    /\ tlayers = <<>>
    /\ results = <<>>
    /\ QIdle
    /\ SIdle
    /\ OIdle

\* traceToSVG / traceImage: one call of trace with the converter's options
TraceToSVG ==
    /\ Len(results) < MaxRuns
    /\ TraceWith(TraceOptions(impl, options))

PNext == TraceToSVG

PosterSpec == PosterInit /\ [][PNext]_vars

(***************************************************************************)
(* The command line: convertFiles (src/bin/cli.js)                         *)
(*                                                                         *)
(* The run is given with the default --output '.', so every output lies in *)
(* the current directory: page 0 of a base name is `${baseName}.svg`, page *)
(* n >= 1 is `${baseName}_page${n}.svg`.  A file on disk is "absent",      *)
(* "old" (there before the run) or "new" (written by the run).  At most    *)
(* one file is there before the run.                                       *)
(***************************************************************************)
BaseNames == {"a", "b"}

OutPaths == [baseName : BaseNames, page : 0 .. MaxPages]

OutputPath(input) == [baseName |-> input.baseName, page |-> 0]

PageOutputPath(input, n) == [baseName |-> input.baseName, page |-> n]

\* the writeFile calls of one input: one per page of an array result, else outputPath
WriteResult(d, input, numPages, allPages) ==
    [ p \in DOMAIN d |->
        IF input.ext = "pdf" /\ allPages
        THEN IF \E n \in 1 .. numPages : p = PageOutputPath(input, n) THEN "new" ELSE d[p]
        ELSE IF p = OutputPath(input) THEN "new" ELSE d[p] ]

DInit ==
    /\ impl = "node"
    /\ \E old \in SUBSET OutPaths :
          /\ Cardinality(old) <= 1
          /\ disk = [ p \in OutPaths |-> IF p \in old THEN "old" ELSE "absent" ]
    /\ \E n \in 1 .. MaxInputs :
       \E inputs \in [1 .. n -> [baseName : BaseNames, ext : {"png", "pdf"}]],
          opts \in [overwrite : BOOLEAN, pdfAll : BOOLEAN, dryRun : BOOLEAN] :
          cli = [inputs |-> inputs, opts |-> opts, i |-> 1,
                 successCount |-> 0, failCount |-> 0, exit |-> "running"]
    /\ QIdle
    /\ SIdle
    /\ TIdle
    /\ FIdle
    /\ CIdle
    /\ AIdle
    /\ WIdle
    /\ RIdle

\* the number of fs.writeFile calls an input's result needs
WriteCalls(input, numPages, allPages) ==
    IF input.ext = "pdf" /\ allPages THEN numPages ELSE 1

\* one iteration of `for (const input of inputs)`; whether the input file is
\* there, how many pages a PDF has and how many fs.writeFile calls succeed
\* before one throws are read from the environment
ConvertFile ==
    /\ cli.exit = "running"
    /\ cli.i <= Len(cli.inputs)
    /\ \E present \in BOOLEAN, numPages \in 1 .. MaxPages, written \in 0 .. MaxPages :
          IF cli.opts.dryRun
          THEN /\ disk' = disk
               /\ cli' = [cli EXCEPT !.i = @ + 1]
          ELSE IF \/ ~present
                  \/ ~cli.opts.overwrite /\ disk[OutputPath(cli.inputs[cli.i])] # "absent"
          THEN /\ disk' = disk
               /\ cli' = [cli EXCEPT !.i = @ + 1, !.failCount = @ + 1]
          ELSE IF written < WriteCalls(cli.inputs[cli.i], numPages, cli.opts.pdfAll)
          THEN \* a writeFile throws: the pages written before it stay on disk
               /\ disk' = IF written = 0 THEN disk
                          ELSE WriteResult(disk, cli.inputs[cli.i], written, cli.opts.pdfAll)
               /\ cli' = [cli EXCEPT !.i = @ + 1, !.failCount = @ + 1]
          ELSE /\ disk' = WriteResult(disk, cli.inputs[cli.i], numPages, cli.opts.pdfAll)
               /\ cli' = [cli EXCEPT !.i = @ + 1, !.successCount = @ + 1]
    /\ UNCHANGED <<impl, qvars, svars, tvars, fvars, cvars, avars, wvars, rvars>>

\* after the loop: process.exit(1) if an input failed
CliExit ==
    /\ cli.exit = "running"
    /\ cli.i > Len(cli.inputs)
    /\ cli' = [cli EXCEPT !.exit = IF cli.failCount > 0 THEN "1" ELSE "0"]
    /\ UNCHANGED <<impl, disk, qvars, svars, tvars, fvars, cvars, avars, wvars, rvars>>

DNext == ConvertFile \/ CliExit

CliSpec == DInit /\ [][DNext]_vars

(***************************************************************************)
(* File types: getFileType (src/examples/usage.js, src/js/converter.js)    *)
(*                                                                         *)
(* A file name is the sequence of its parts between dots, "Document.PDF"   *)
(* is << Seg("document", TRUE), Seg("pdf", TRUE) >>: a part is its letters *)
(* and whether any of them is written in upper case.  A hidden file such   *)
(* as ".png" has an empty first part.  A browser File carries the MIME     *)
(* type the browser derives from the extension, or "" when it knows none.  *)
(***************************************************************************)
Extensions ==
    {"png", "jpg", "jpeg", "webp", "gif", "bmp", "tiff", "tif", "avif", "heic",
     "pdf", "docx", "doc", "pptx", "txt"}

Seg(text, caps) == [text |-> text, caps |-> caps]

\* a faulty toLowerCase that leaves the name as written
KeepCase(name) == name

ToLowerCase(name) == [ i \in DOMAIN name |-> Seg(name[i].text, FALSE) ]

\* path.extname: the part after the last dot, unless that dot starts the name
ExtName(filename) ==
    IF Len(filename) < 2 \/ (Len(filename) = 2 /\ filename[1].text = "")
    THEN << >>
    ELSE << Seg("", FALSE), filename[Len(filename)] >>

\* name.endsWith('.' + e)
EndsWith(name, e) == Len(name) >= 2 /\ name[Len(name)] = Seg(e, FALSE)

NodeImageTypes ==
    { << Seg("", FALSE), Seg(e, FALSE) >> :
        e \in {"png", "jpg", "jpeg", "webp", "gif", "bmp", "tiff", "tif", "avif", "heic", "heif"} }

NodeFileType(filename) ==
    IF ToLowerCase(ExtName(filename)) \in NodeImageTypes THEN "image"
    ELSE IF ToLowerCase(ExtName(filename)) = << Seg("", FALSE), Seg("pdf", FALSE) >> THEN "pdf"
    ELSE IF ToLowerCase(ExtName(filename)) = << Seg("", FALSE), Seg("docx", FALSE) >> THEN "docx"
    ELSE IF ToLowerCase(ExtName(filename)) = << Seg("", FALSE), Seg("doc", FALSE) >> THEN "doc"
    ELSE "image"

BrowserImageTypes ==
    {"image/png", "image/jpeg", "image/jpg", "image/webp", "image/gif", "image/bmp", "image/tiff"}

BrowserFileType(f) ==
    IF \/ f.type \in BrowserImageTypes
       \/ \E e \in {"png", "jpg", "jpeg", "webp", "gif", "bmp", "tif", "tiff"} :
             EndsWith(ToLowerCase(f.name), e)
    THEN "image"
    ELSE IF f.type = "application/pdf" \/ EndsWith(ToLowerCase(f.name), "pdf") THEN "pdf"
    ELSE IF \/ f.type = "application/vnd.openxmlformats-officedocument.wordprocessingml.document"
            \/ EndsWith(ToLowerCase(f.name), "docx")
    THEN "docx"
    ELSE IF EndsWith(ToLowerCase(f.name), "doc") THEN "doc"
    ELSE IF \/ f.type = "application/vnd.openxmlformats-officedocument.presentationml.presentation"
            \/ EndsWith(ToLowerCase(f.name), "pptx")
    THEN "pptx"
    ELSE IF \E e \in Extensions : f.type = "image/" \o e THEN "image"
    ELSE "unknown"

GetFileTypeOf(im, f) == IF im = "browser" THEN BrowserFileType(f) ELSE NodeFileType(f.name)

\* the MIME type a browser attaches to a file with this extension
MimeOf(e) ==
    CASE e \in {"png", "webp", "gif", "bmp", "tiff", "avif", "heic"} -> "image/" \o e
      [] e \in {"jpg", "jpeg"} -> "image/jpeg"
      [] e = "tif" -> "image/tiff"
      [] e = "pdf" -> "application/pdf"
      [] e = "docx" -> "application/vnd.openxmlformats-officedocument.wordprocessingml.document"
      [] e = "doc" -> "application/msword"
      [] e = "pptx" -> "application/vnd.openxmlformats-officedocument.presentationml.presentation"
      [] OTHER -> ""

FileNames ==
    UNION { { << stem >> \o exts :
                stem \in {Seg("", FALSE)} \cup [text : {"document"} \cup Extensions, caps : BOOLEAN],
                exts \in [1 .. n -> [text : Extensions, caps : BOOLEAN]] } :
            n \in 0 .. MaxSegments - 1 }

FInit ==
    /\ impl \in Impls
    /\ \E name \in FileNames :
          \E type \in IF impl = "browser" THEN {"", MimeOf(name[Len(name)].text)} ELSE {""} :
             file = [name |-> name, type |-> type]
    /\ fileType = << >>
    /\ QIdle
    /\ SIdle
    /\ TIdle
    /\ CIdle
    /\ DIdle
    /\ AIdle
    /\ WIdle
    /\ RIdle

GetFileType ==
    /\ Len(fileType) < MaxRuns
    /\ fileType' = Append(fileType, GetFileTypeOf(impl, file))
    /\ UNCHANGED <<impl, file, qvars, svars, tvars, cvars, dvars, avars, wvars, rvars>>

FNext == GetFileType

FileSpec == FInit /\ [][FNext]_vars

(***************************************************************************)
(* Converter options: new ATSVGConverter, createConverter, convertBuffer   *)
(* (src/examples/usage.js).  An options object is a function from its own  *)
(* keys to their values.                                                   *)
(***************************************************************************)
DefaultOptions ==
    [conversionMode |-> "embed", jpegQuality |-> 92, scale |-> 100, colorCount |-> 16,
     traceMode |-> "color", transparentBg |-> TRUE, removeWhiteBg |-> FALSE,
     whiteToleranceValue |-> 20, blurRadius |-> 0, pathSimplify |-> 1, threshold |-> 128,
     addViewBox |-> TRUE, imageFormat |-> "png", pdfScale |-> 2]

\* a faulty spread in which the first object wins
SpreadFirstWins(a, b) ==
    [ k \in DOMAIN a \cup DOMAIN b |-> IF k \in DOMAIN a THEN a[k] ELSE b[k] ]

\* { ...a, ...b }
Spread(a, b) ==
    [ k \in DOMAIN a \cup DOMAIN b |-> IF k \in DOMAIN b THEN b[k] ELSE a[k] ]

\* the option objects with the given keys, at most
OptionObjects(keys) ==
    { [ k \in given |-> o[k] ] :
        given \in SUBSET keys,
        o \in [conversionMode : {"trace"}, jpegQuality : {80, 75}, colorCount : {8},
               allPages : {TRUE}] }

CInit ==
    /\ impl = "node"
    /\ \E via \in {"new", "createConverter"},
          o \in OptionObjects({"conversionMode", "jpegQuality", "colorCount", "allPages"}) :
          conv = [via |-> via, given |-> o, options |-> Spread(DefaultOptions, o)]
    /\ calls = << >>
    /\ QIdle
    /\ SIdle
    /\ TIdle
    /\ FIdle
    /\ DIdle
    /\ AIdle
    /\ WIdle
    /\ RIdle

\* convertBuffer(buffer, filename, options): opts is a new object, this.options
\* is read only
ConvertBuffer ==
    /\ Len(calls) < MaxCalls
    /\ \E o \in OptionObjects({"jpegQuality", "colorCount"}) :
          calls' = Append(calls, [given |-> o, opts |-> Spread(conv.options, o)])
    /\ UNCHANGED <<impl, conv, qvars, svars, tvars, fvars, dvars, avars, wvars, rvars>>

CNext == ConvertBuffer

ConvSpec == CInit /\ [][CNext]_vars

(***************************************************************************)
(* The web app: ATSVGApp (src/js/app.js) with the browser converter's      *)
(* convert (src/js/converter.js)                                           *)
(*                                                                         *)
(* A file is its base name, its extension and, for a PDF, its page count.  *)
(* An SVG string is identified by what it was converted from: the file,    *)
(* the page (0 for an image), the colorCount setting, and whether          *)
(* optimizeSVG was applied.  A JS object is a record of its own keys, so   *)
(* a key it lacks reads as undefined.  A handler runs to its first await   *)
(* in one step; what follows the await is a later step on the job it left  *)
(* in app.jobs.  The number of user events is bounded by MaxEvents.        *)
(***************************************************************************)
NoFile == [base |-> "", ext |-> "", pages |-> 0]

NoSVG == [base |-> "", page |-> 0, colorCount |-> 0, optimized |-> FALSE]

AppFiles ==
    {[base |-> "a", ext |-> "png", pages |-> 0], [base |-> "c", ext |-> "doc", pages |-> 0]}
        \cup [base : {"b"}, ext : {"pdf"}, pages : 1 .. MaxPages]

AppSettings == [allPages : BOOLEAN, colorCount : {16, 8}]

Svg(f, page, settings) ==
    [base |-> f.base, page |-> page, colorCount |-> settings.colorCount, optimized |-> FALSE]

OptimizeSVG(svg) == [svg EXCEPT !.optimized = TRUE]

\* converter.convert(file, settings): what the promise settles to
Convert(f, settings) ==
    IF f.ext = "pdf" /\ settings.allPages
    THEN [error |-> FALSE, isArray |-> TRUE,
          value |-> [ i \in 1 .. f.pages |->
                        [svg |-> Svg(f, i, settings), pageNumber |-> i, totalPages |-> f.pages] ]]
    ELSE IF f.ext = "pdf"
    THEN [error |-> FALSE, isArray |-> FALSE,
          value |-> << [svg |-> Svg(f, 1, settings), pageNumber |-> 1, totalPages |-> f.pages] >>]
    ELSE IF f.ext = "doc"
    THEN [error |-> TRUE, isArray |-> FALSE, value |-> << >>]
    ELSE [error |-> FALSE, isArray |-> FALSE, value |-> << [svg |-> Svg(f, 0, settings)] >>]

\* if (item[key]) for a key the object may lack
Truthy(item, key) == key \in DOMAIN item /\ item[key] = TRUE

AInit ==
    /\ impl = "browser"
    /\ app = [currentFile |-> NoFile, currentSVG |-> NoSVG,
              batchFiles |-> << >>, batchResults |-> << >>,
              downloadAllBtn |-> "none", previewTimeout |-> 0,
              settings |-> [allPages |-> FALSE, colorCount |-> 16],
              jobs |-> {}, events |-> 0]
    /\ timers = {}
    /\ downloads = << >>
    /\ QIdle
    /\ SIdle
    /\ TIdle
    /\ FIdle
    /\ CIdle
    /\ DIdle
    /\ WIdle
    /\ RIdle

\* a user event: the handlers below take it as their first conjunct
UserEvent(a) == a.events < MaxEvents

AFrame == UNCHANGED <<impl, qvars, svars, tvars, fvars, cvars, dvars, wvars, rvars>>

\* handleFiles(files): one file is processed, several become the batch
HandleFiles ==
    /\ UserEvent(app)
    /\ \E n \in 1 .. 2 : \E files \in [1 .. n -> AppFiles] :
          app' = IF n = 1
                 THEN [app EXCEPT !.events = @ + 1,
                                  !.currentFile = files[1],
                                  !.jobs = @ \cup {[id |-> app.events + 1, kind |-> "processFile",
                                                    stage |-> "preview", file |-> files[1],
                                                    settings |-> app.settings, i |-> 0]}]
                 ELSE [app EXCEPT !.events = @ + 1, !.batchFiles = files]
    /\ UNCHANGED <<timers, downloads>>
    /\ AFrame

\* processFile after `await this.showOriginalPreview(file)`: getSettings() is
\* read and the conversion starts
ProcessFileConverts ==
    /\ \E job \in app.jobs :
          /\ job.kind = "processFile"
          /\ job.stage = "preview"
          /\ app' = [app EXCEPT !.jobs = (@ \ {job}) \cup
                        {[job EXCEPT !.stage = "converting", !.settings = app.settings]}]
    /\ UNCHANGED <<timers, downloads>>
    /\ AFrame

\* the assignments processFile and updatePreview make once convert has settled
ShowResult(a, job, r) ==
    IF r.error
    THEN [a EXCEPT !.jobs = @ \ {job}]
    ELSE IF r.isArray
    THEN [a EXCEPT !.jobs = @ \ {job},
                   !.batchResults = r.value,
                   !.currentSVG = r.value[1].svg,
                   !.downloadAllBtn = IF job.kind = "processFile" THEN "inline-flex" ELSE @]
    ELSE [a EXCEPT !.jobs = @ \ {job},
                   !.currentSVG = OptimizeSVG(r.value[1].svg),
                   !.downloadAllBtn = IF job.kind = "processFile" THEN "none" ELSE @]

\* processFile or updatePreview after `await this.converter.convert(...)`
ConvertSettles ==
    /\ \E job \in app.jobs :
          /\ job.kind \in {"processFile", "updatePreview"}
          /\ job.stage = "converting"
          /\ app' = ShowResult(app, job, Convert(job.file, job.settings))
    /\ UNCHANGED <<timers, downloads>>
    /\ AFrame

\* a settings control changes: its listener calls debouncePreview
ChangeSetting ==
    /\ UserEvent(app)
    /\ \E st \in AppSettings :
          /\ (st.allPages # app.settings.allPages) # (st.colorCount # app.settings.colorCount)
          /\ app' = [app EXCEPT !.events = @ + 1, !.settings = st,
                                !.previewTimeout = app.events + 1]
    /\ timers' = { t \in timers : ~(t.kind = "preview" /\ t.id = app.previewTimeout) }
                    \cup {[kind |-> "preview", id |-> app.events + 1]}
    /\ UNCHANGED downloads
    /\ AFrame

\* the debounce timer fires: updatePreview up to its await
UpdatePreview ==
    /\ \E t \in timers :
          /\ t.kind = "preview"
          /\ timers' = timers \ {t}
          /\ app' = IF app.currentFile = NoFile
                    THEN app
                    ELSE [app EXCEPT !.jobs = @ \cup
                             {[id |-> t.id, kind |-> "updatePreview", stage |-> "converting",
                               file |-> app.currentFile, settings |-> app.settings, i |-> 0]}]
    /\ UNCHANGED downloads
    /\ AFrame

\* convertBatch from the loop test on: convert the next file or finish
BatchLoop(a, job, i) ==
    IF i < Len(a.batchFiles)
    THEN [a EXCEPT !.jobs = (@ \ {job}) \cup
             {[job EXCEPT !.i = i, !.file = a.batchFiles[i + 1], !.stage = "converting"]}]
    ELSE [a EXCEPT !.jobs = @ \ {job}, !.downloadAllBtn = "inline-flex"]

\* Convert All is clicked: convertBatch up to its first await
ConvertBatch ==
    /\ UserEvent(app)
    /\ Len(app.batchFiles) > 0
    /\ app' = BatchLoop([app EXCEPT !.events = @ + 1, !.batchResults = << >>],
                        [id |-> app.events + 1, kind |-> "convertBatch", stage |-> "loop",
                         file |-> NoFile, settings |-> app.settings, i |-> 0], 0)
    /\ UNCHANGED <<timers, downloads>>
    /\ AFrame

\* convertBatch after `await this.converter.convert(file, settings)`
BatchItem(job, r) ==
    IF r.error
    THEN [file |-> job.file, error |-> "message", success |-> FALSE]
    ELSE [file |-> job.file, result |-> r.value, success |-> TRUE]

BatchConvertSettles ==
    /\ \E job \in app.jobs :
          /\ job.kind = "convertBatch"
          /\ app' = BatchLoop([app EXCEPT !.batchResults =
                                  Append(@, BatchItem(job, Convert(job.file, job.settings)))],
                              job, job.i + 1)
    /\ UNCHANGED <<timers, downloads>>
    /\ AFrame

ClearBatch(a) == [a EXCEPT !.batchFiles = << >>, !.batchResults = << >>]

\* the remove button of a batch item is clicked
RemoveBatchItem ==
    /\ UserEvent(app)
    /\ \E index \in 1 .. Len(app.batchFiles) :
          app' = IF Len(app.batchFiles) = 1
                 THEN ClearBatch([app EXCEPT !.events = @ + 1])
                 ELSE [app EXCEPT !.events = @ + 1,
                                  !.batchFiles = SubSeq(@, 1, index - 1)
                                                    \o SubSeq(@, index + 1, Len(@))]
    /\ UNCHANGED <<timers, downloads>>
    /\ AFrame

\* Clear is clicked
ClearBatchClick ==
    /\ UserEvent(app)
    /\ Len(app.batchFiles) > 0
    /\ app' = ClearBatch([app EXCEPT !.events = @ + 1])
    /\ UNCHANGED <<timers, downloads>>
    /\ AFrame

\* Download is clicked: downloadSVG
DownloadSVG ==
    /\ UserEvent(app)
    /\ app' = [app EXCEPT !.events = @ + 1]
    /\ downloads' = IF app.currentSVG = NoSVG \/ app.currentFile = NoFile
                    THEN downloads
                    ELSE Append(downloads, [content |-> app.currentSVG,
                                            fileName |-> [base |-> app.currentFile.base, page |-> 0]])
    /\ UNCHANGED timers
    /\ AFrame

\* the setTimeout calls of downloadAllSVGs.  Its second branch needs
\* batchResults to be empty and currentSVG to be an array, and then loops over
\* the empty batchResults: it schedules nothing.
DownloadTimer(a, click, index, pageIndex) ==
    [kind |-> "download", id |-> click,
     delay |-> (index - 1) * 100 + (pageIndex - 1) * 50,
     order |-> << index, pageIndex >>,
     content |-> a.batchResults[index].result[pageIndex].svg,
     fileName |-> [base |-> a.batchResults[index].file.base,
                   page |-> IF Len(a.batchResults[index].result) > 1 THEN pageIndex ELSE 0]]

DownloadAllTimers(a, click) ==
    IF Len(a.batchResults) > 0
    THEN UNION { { DownloadTimer(a, click, index, pageIndex) :
                      pageIndex \in 1 .. Len(a.batchResults[index].result) } :
                 index \in { k \in 1 .. Len(a.batchResults) :
                                Truthy(a.batchResults[k], "success") } }
    ELSE {}

\* Download All is clicked; the button is shown only after a conversion
DownloadAllSVGs ==
    /\ UserEvent(app)
    /\ app.downloadAllBtn = "inline-flex"
    /\ app' = [app EXCEPT !.events = @ + 1]
    /\ timers' = timers \cup DownloadAllTimers(app, app.events + 1)
    /\ UNCHANGED downloads
    /\ AFrame

\* timer t2 is due before timer t
DueBefore(t2, t) ==
    /\ t2.kind = "download"
    /\ t2.id <= t.id
    /\ t2.delay <= t.delay
    /\ \/ t2.id < t.id
       \/ t2.delay < t.delay
       \/ t2.order[1] < t.order[1]
       \/ t2.order[1] = t.order[1] /\ t2.order[2] < t.order[2]

\* a download timer fires: downloadFile
DownloadFile ==
    /\ \E t \in timers :
          /\ t.kind = "download"
          /\ \A t2 \in timers : ~DueBefore(t2, t)
          /\ timers' = timers \ {t}
          /\ downloads' = Append(downloads, [content |-> t.content, fileName |-> t.fileName])
    /\ UNCHANGED app
    /\ AFrame

ANext ==
    \/ HandleFiles
    \/ ProcessFileConverts
    \/ ConvertSettles
    \/ ChangeSetting
    \/ UpdatePreview
    \/ ConvertBatch
    \/ BatchConvertSettles
    \/ RemoveBatchItem
    \/ ClearBatchClick
    \/ DownloadSVG
    \/ DownloadAllSVGs
    \/ DownloadFile

AppSpec == AInit /\ [][ANext]_vars

(***************************************************************************)
(* tracePaths step by step (browser): one step per pixel of the scan and   *)
(* one per pass through the do-while loop of a walk                        *)
(***************************************************************************)
WInit ==
    /\ impl = "browser"
    /\ walk = [pc |-> "start"]
    /\ QIdle
    /\ SIdle
    /\ TIdle
    /\ FIdle
    /\ CIdle
    /\ DIdle
    /\ AIdle
    /\ RIdle

WFrame == UNCHANGED <<impl, qvars, svars, tvars, fvars, cvars, dvars, avars, rvars>>

\* tracePaths(layer, w, h, options) is called: paths = [], visited all 0
TracePathsCall ==
    /\ walk.pc = "start"
    /\ \E w \in 1 .. MaxMaskPixels, h \in 1 .. MaxMaskPixels, pathomit \in {1, 8} :
          /\ w * h <= MaxMaskPixels
          /\ \E mask \in [1 .. w * h -> {0, 1}] :
                walk' = [pc |-> "scan", mask |-> mask, w |-> w, h |-> h,
                         pathomit |-> pathomit, i |-> 0,
                         visited |-> [ k \in 1 .. w * h |-> 0 ], paths |-> << >>,
                         startX |-> 0, startY |-> 0, wk |-> WalkStart(0, 0, << >>)]
    /\ WFrame

\* one pixel of the scan: a walk starts at it or the scan moves on
ScanPixel ==
    /\ walk.pc = "scan"
    /\ walk.i < walk.w * walk.h
    /\ walk' = IF StartsWalk(walk.mask, walk.w, walk.h, walk.i, walk.visited)
               THEN [walk EXCEPT !.pc = "walk",
                                 !.startX = walk.i % walk.w,
                                 !.startY = walk.i \div walk.w,
                                 !.wk = WalkStart(walk.i % walk.w, walk.i \div walk.w, walk.visited)]
               ELSE [walk EXCEPT !.i = @ + 1]
    /\ WFrame

\* the walk after the loop: the path is kept or dropped and the scan goes on
WalkEnds(wl, wk) ==
    [wl EXCEPT !.pc = "scan", !.i = @ + 1, !.wk = wk,
               !.visited = wk.visited,
               !.paths = KeepPath(wl, wk, wl.pathomit).paths]

\* one pass through the do-while loop, its test included
WalkLoop ==
    /\ walk.pc = "walk"
    /\ \E wk \in { WalkStep(walk.mask, walk.w, walk.h, walk.wk) } :
          walk' = IF WalkContinues(walk.w, walk.h, walk.startX, walk.startY, wk)
                  THEN [walk EXCEPT !.wk = wk]
                  ELSE WalkEnds(walk, wk)
    /\ WFrame

\* the scan is over: return paths
TracePathsReturn ==
    /\ walk.pc = "scan"
    /\ walk.i >= walk.w * walk.h
    /\ walk' = [walk EXCEPT !.pc = "done"]
    /\ WFrame

WNext == TracePathsCall \/ ScanPixel \/ WalkLoop \/ TracePathsReturn

WalkSpec == WInit /\ [][WNext]_vars

\* a call that has started keeps running: it is one synchronous function
WalkFair == WalkSpec /\ WF_vars(ScanPixel \/ WalkLoop \/ TracePathsReturn)

(***************************************************************************)
(* Monochrome traces of images with pixels whose luma is at the threshold: *)
(* (1,189,147) has luma 128 exactly, also in doubles; the gray 128 has     *)
(* luma 128 exactly and 127.99999999999999 in doubles.                     *)
(***************************************************************************)
MonoPixelKinds ==
    { Px(1, 189, 147, 255), Px(128, 128, 128, 255), Px(0, 0, 0, 255),
      Px(255, 255, 255, 100), Px(200, 200, 200, 0) }

MonoInit ==
    /\ impl \in Impls
    /\ \E n \in 1 .. 2 : \E buf \in [1 .. n -> MonoPixelKinds] :
          imgd = [data |-> buf, width |-> n, height |-> 1]
    /\ \E o \in OptionSets(impl) :
          /\ o.colorMode = "monochrome"
          /\ o.numberofcolors = 2
          /\ o.blurradius = 0
          /\ o.pathomit = 8
          /\ options \in { o, [o EXCEPT !.threshold = 0] }
    /\ tprocessed = <<>>
    /\ tpalette = <<>>
    /\ tindexed = <<>>
    /\ tlayers = <<>>
    /\ results = <<>>
    /\ QIdle
    /\ SIdle
    /\ OIdle

MonoSpec == MonoInit /\ [][TNext]_vars

(***************************************************************************)
(* The rectangles of the node tracer, for every palette index of one       *)
(* indexed image                                                           *)
(***************************************************************************)
RInit ==
    /\ impl = "node"
    /\ colorRects = [pc |-> "start"]
    /\ QIdle
    /\ SIdle
    /\ TIdle
    /\ FIdle
    /\ CIdle
    /\ DIdle
    /\ AIdle
    /\ WIdle

\* the loop of trace over the palette: createColorRects(indexed, width, height, i)
\* for i = 0 .. palette.length - 1, on an indexed image of -1 and palette indexes
CreateRectsPerColor ==
    /\ colorRects.pc = "start"
    /\ \E w \in 1 .. MaxRectPixels, h \in 1 .. MaxRectPixels, n \in 1 .. 2 :
          /\ w * h <= MaxRectPixels
          /\ \E indexed \in [1 .. w * h -> (-1) .. (n - 1)] :
                colorRects' = [pc |-> "done", indexed |-> indexed, width |-> w,
                               height |-> h,
                               rects |-> [ i \in 0 .. (n - 1) |->
                                             CreateColorRects(indexed, w, h, i) ]]
    /\ UNCHANGED <<impl, qvars, svars, tvars, fvars, cvars, dvars, avars, wvars>>

RNext == CreateRectsPerColor

RectSpec == RInit /\ [][RNext]_vars

(***************************************************************************)
(* Properties of the quantizer (QuantSpec, QuantFair)                      *)
(***************************************************************************)
DistinctColors(pxs) == { << pxs[i].r, pxs[i].g, pxs[i].b >> : i \in 1 .. Len(pxs) }

\* C1: for every buffer (empty and fully transparent ones included) and every
\* requested colour count N >= 1, the palette the quantizer returns has at least
\* 1 and at most N entries, in the browser and in the node implementation.
C1_PaletteSizeBounded ==
    (qpc = "done" /\ numColors >= 1) =>
        (Len(palette) >= 1 /\ Len(palette) <= numColors)

\* a run that dropped a transparent pixel and split up to the requested count
C1_Witness ==
    /\ qpc = "done"
    /\ numColors >= 2
    /\ Len(palette) = numColors
    /\ Len(pixels) < Len(data)

\* one bucket of two or more members is replaced by two non-empty buckets that
\* share its members; every other bucket stays
IsSplit(old, new) ==
    /\ Len(new) = Len(old) + 1
    /\ \E k \in 1 .. Len(old) :
        /\ Len(old[k]) >= 2
        /\ Len(new[k]) >= 1
        /\ Len(new[k + 1]) >= 1
        /\ Len(new[k]) + Len(new[k + 1]) = Len(old[k])
        /\ \A j \in 1 .. Len(old) :
            /\ j < k => new[j] = old[j]
            /\ j > k => new[j + 1] = old[j]

\* C4: the median-cut loop terminates for every pixel list and every requested
\* count, also when the count exceeds the number of pixels or of distinct
\* colours: every iteration either splits one bucket of >= 2 members into two
\* non-empty buckets (one bucket more) or leaves the loop, and the quantizer
\* eventually returns.
C4_MedianCutTerminates ==
    /\ [][qpc = "loop" => (qpc' = "done" \/ IsSplit(boxes, boxes'))]_vars
    /\ <>(qpc = "done")

\* the loop ran out of splittable buckets before reaching the requested count
C4_Witness ==
    /\ qpc = "done"
    /\ Len(pixels) >= 2
    /\ numColors > Len(pixels)
    /\ Len(boxes) = Len(pixels)

C9_ClampedToOne ==
    (qpc = "done" /\ numColors < 1 /\ Len(pixels) > 0)
        => palette = BoxesToPalette(impl, << pixels >>)

(***************************************************************************)
(* Properties of the simplifier (SimplifySpec)                             *)
(***************************************************************************)
\* a is b with some elements left out, the order kept
RECURSIVE IsSubsequence(_, _)
IsSubsequence(a, b) ==
    IF a = <<>> THEN TRUE
    ELSE IF b = <<>> THEN FALSE
    ELSE IF a[1] = b[1] THEN IsSubsequence(Tail(a), Tail(b))
    ELSE IsSubsequence(a, Tail(b))

\* C3: for every path and tolerance >= 0, simplifyPath returns no more points
\* than it was given, keeps the first and the last point, and returns a
\* subsequence of the input, in the browser and in the node implementation.
C3_SimplifyShrinksKeepsEnds ==
    (spc = "done" /\ tolerance >= 0) =>
        /\ simplified.ok
        /\ Len(simplified.pts) <= Len(path)
        /\ Len(path) >= 1 =>
            /\ Len(simplified.pts) >= 1
            /\ simplified.pts[1] = path[1]
            /\ simplified.pts[Len(simplified.pts)] = path[Len(path)]
        /\ IsSubsequence(simplified.pts, path)

\* a path that lost an interior point and kept another
C3_Witness ==
    /\ spc = "done"
    /\ tolerance >= 0
    /\ Len(path) = 4
    /\ Len(simplified.pts) = 3

\* C10: a negative tolerance is clamped: simplifyPath returns, and returns what
\* tolerance 0 returns, also for paths with three or more collinear points.
C10_NegativeToleranceClamped ==
    (spc = "done" /\ tolerance < 0) =>
        /\ simplified.ok
        /\ simplified = SimplifyPath(impl, path, 0)

\* the points of the path at the indexes K, in path order
KeptPoints(K) ==
    [ k \in 1 .. Cardinality(K) |->
        path[CHOOSE i \in K : Cardinality({ j \in K : j <= i }) = k] ]

\* the squared distance d is at most tol squared
WithinTolerance(d, tol) == d.num <= Sq(tol) * d.den

\* the point at index i, not in K, is within the tolerance of the line through
\* the nearest points of K before and after it
DroppedNearLine(K, i) ==
    \E a, b \in K :
        /\ a < i /\ i < b
        /\ \A j \in K : j <= a \/ j >= b
        /\ WithinTolerance(SqPerpDist(path[i], path[a], path[b]), tolerance)

\* C26: for every path and tolerance t >= 0 the points simplifyPath drops lie
\* within distance t of the line through the two retained points they fell
\* between, and when a point is farther than t from the line from the first to
\* the last point the path is not collapsed to its two end points.
C26_BoundedDeviation ==
    (spc = "done" /\ tolerance >= 0 /\ Len(path) >= 3) =>
        /\ simplified.ok
        /\ \E K \in SUBSET (1 .. Len(path)) :
              /\ 1 \in K /\ Len(path) \in K
              /\ KeptPoints(K) = simplified.pts
              /\ \A i \in (1 .. Len(path)) \ K : DroppedNearLine(K, i)
        /\ (\E i \in 2 .. (Len(path) - 1) :
                ~WithinTolerance(SqPerpDist(path[i], path[1], path[Len(path)]), tolerance))
            => Len(simplified.pts) >= 3

\* a point off the first-to-last line was kept and a point near the line
\* between two retained points was dropped
C26_Witness ==
    /\ spc = "done"
    /\ tolerance = 1
    /\ Len(path) = 4
    /\ Len(simplified.pts) = 3
    /\ \E i \in 2 .. 3 :
          ~WithinTolerance(SqPerpDist(path[i], path[1], path[4]), tolerance)
    /\ \E i \in 2 .. 3 :
          /\ path[i] # simplified.pts[2]
          /\ SqPerpDist(path[i], path[1], path[4]).num > 0

(***************************************************************************)
(* Properties of the trace pipeline (TraceSpec)                            *)
(***************************************************************************)
LayersHolding(i) == { k \in 1 .. Len(tlayers) : tlayers[k].array[i] = 1 }

\* C2: after indexing and layer separation every pixel's index is -1 or a valid
\* palette index; a pixel with a non-negative index is set in exactly one layer
\* mask, the one of its palette entry, and a pixel with index -1 is set in none.
C2_IndexedAndPartitioned ==
    Len(results) >= 1 =>
        /\ Len(tpalette) >= 1
        /\ \A i \in 1 .. Len(tindexed) :
            tindexed[i] = -1 \/ tindexed[i] \in 0 .. (Len(tpalette) - 1)
        /\ impl = "browser" =>
            /\ Len(tindexed) = imgd.width * imgd.height
            /\ \A k \in 1 .. Len(tlayers) : Len(tlayers[k].array) = Len(tindexed)
            /\ \A i \in 1 .. Len(tindexed) :
                IF tindexed[i] >= 0
                THEN /\ Cardinality(LayersHolding(i)) = 1
                     /\ \A k \in LayersHolding(i) :
                            tlayers[k].color = tpalette[tindexed[i] + 1]
                ELSE LayersHolding(i) = {}

\* two layers and a transparent pixel
C2_Witness ==
    /\ impl = "browser"
    /\ Len(results) >= 1
    /\ Len(tlayers) >= 2
    /\ \E i \in 1 .. Len(tindexed) : tindexed[i] = -1

\* C6: in monochrome mode the palette has exactly 2 entries when the pixels the
\* quantizer counts hold both black and white after thresholding, and exactly 1
\* when they are uniform (or there are none), whatever count was requested.
C6_MonochromePaletteSize ==
    (Len(results) >= 1 /\ options.colorMode = "monochrome") =>
        Len(tpalette) =
            (IF Cardinality(DistinctColors(Population(impl, tprocessed))) >= 2 THEN 2 ELSE 1)

\* one colour was requested and the thresholded image holds two
C6_Witness ==
    /\ Len(results) >= 1
    /\ options.colorMode = "monochrome"
    /\ options.numberofcolors = 1
    /\ Len(tpalette) = 2

\* C7: repeated trace calls on one buffer with one configuration return the
\* same document every time.
C7_Deterministic ==
    \A i, j \in 1 .. Len(results) : results[i] = results[j]

\* C8: when the buffer does not hold width x height pixels, trace fails with an
\* error and returns no document.
C8_MismatchFails ==
    (Len(results) >= 1 /\ Len(imgd.data) # imgd.width * imgd.height)
        => results[1].kind = "error"

\* every pixel of the caller's buffer has alpha 0 (also: there is no pixel) and
\* the buffer holds width x height pixels
FullyTransparent ==
    /\ Len(imgd.data) = imgd.width * imgd.height
    /\ \A i \in 1 .. Len(imgd.data) : imgd.data[i].a = 0

\* C11: for a fully transparent or zero-pixel buffer the quantizer returns exactly
\* one palette entry, the neutral gray (128,128,128), and trace returns a
\* document with no fill region.
C11_TransparentGivesGray ==
    (Len(results) >= 1 /\ FullyTransparent) =>
        /\ Len(tpalette) = 1
        /\ tpalette[1].r = 128 /\ tpalette[1].g = 128 /\ tpalette[1].b = 128
        /\ \A k \in 1 .. Len(results) :
            /\ results[k].kind = "document"
            /\ results[k].doc.elements = <<>>

(***************************************************************************)
(* Properties of trace on images of uniform columns (SceneSpec)            *)
(***************************************************************************)
SameRGB(c, p) == c.r = p.r /\ c.g = p.g /\ c.b = p.b

\* the coordinate v of the image in the units a coordinate of d is printed in
InUnits(v, o) == v * o.scale * Pow10(o.roundcoords)

\* the region of a document element holds the pixel square (x, y)..(x+1, y+1):
\* a rect of the node document, or the box spanned by the points of a path
HoldsPixel(el, x, y, o) ==
    IF "rects" \in DOMAIN el
    THEN \E k \in 1 .. Len(el.rects) :
            /\ el.rects[k].x <= x /\ x + 1 <= el.rects[k].x + el.rects[k].w
            /\ el.rects[k].y <= y /\ y + 1 <= el.rects[k].y + el.rects[k].h
    ELSE /\ \E k \in 1 .. Len(el.d) : el.d[k].x.units <= InUnits(x, o)
         /\ \E k \in 1 .. Len(el.d) : el.d[k].x.units >= InUnits(x + 1, o)
         /\ \E k \in 1 .. Len(el.d) : el.d[k].y.units <= InUnits(y, o)
         /\ \E k \in 1 .. Len(el.d) : el.d[k].y.units >= InUnits(y + 1, o)

RegionsHolding(doc, x, y, o) ==
    { k \in 1 .. Len(doc.elements) : HoldsPixel(doc.elements[k], x, y, o) }

RedBlue2x2 ==
    /\ imgd = ColumnImage(2, 2, << RedPx, BluePx >>)
    /\ options.numberofcolors = 2
    /\ options.scale = 1
    /\ options.roundcoords = IF impl = "browser" THEN 0 ELSE 1

\* C12: tracing the 2x2 image with a red left and a blue right column with two
\* colours, scale 1 and precision 0 gives the palette red, blue in that order
\* and a document of exactly two filled regions that hold every pixel of the
\* canvas exactly once.
C12_RedBlueScenario ==
    (Len(results) >= 1 /\ RedBlue2x2) =>
        /\ Len(tpalette) = 2
        /\ SameRGB(tpalette[1], RedPx)
        /\ SameRGB(tpalette[2], BluePx)
        /\ impl = "browser" => Len(tlayers) = 2
        /\ results[1].kind = "document"
        /\ Len(results[1].doc.elements) = 2
        /\ \A x \in 0 .. 1, y \in 0 .. 1 :
            Cardinality(RegionsHolding(results[1].doc, x, y, options)) = 1

UniformOpaque ==
    /\ \A i \in 1 .. Len(imgd.data) : imgd.data[i] = imgd.data[1] /\ imgd.data[i].a = 255
    /\ options.numberofcolors = 1

\* C13: tracing a uniform, opaque W x H image with one colour gives one layer
\* and one emitted contour, whose region spans 0..W by 0..H (it holds every
\* pixel), in a document of width round(W * scale) and height round(H * scale).
C13_UniformImageOneContour ==
    (Len(results) >= 1 /\ UniformOpaque) =>
        /\ impl = "browser" => Len(tlayers) = 1
        /\ results[1].kind = "document"
        /\ results[1].doc.width = imgd.width * options.scale
        /\ results[1].doc.height = imgd.height * options.scale
        /\ Len(results[1].doc.elements) = 1
        /\ \A x \in 0 .. imgd.width - 1, y \in 0 .. imgd.height - 1 :
            HoldsPixel(results[1].doc.elements[1], x, y, options)

(***************************************************************************)
(* Properties of the converters' trace mode (PosterSpec)                   *)
(***************************************************************************)
\* C14: in posterize mode the colour count handed to the quantizer is at most 8
\* and the palette has at most 8 entries, whatever colorCount was requested, in
\* the browser converter and in the node converter.
C14_PosterizeCapped ==
    (Len(results) >= 1 /\ options.traceMode = "posterize") =>
        /\ PaletteSize(TraceOptions(impl, options)) <= 8
        /\ Len(tpalette) <= 8

(***************************************************************************)
(* Properties of the command line (CliSpec)                                *)
(***************************************************************************)

\* C15: with --overwrite left at false, an iteration of the conversion loop
\* replaces no file that is already there, and when the input's output SVG is
\* already there the input is counted as failed.
C15_NoOverwriteByDefault ==
    [][ (cli.exit = "running" /\ cli'.i = cli.i + 1
         /\ ~cli.opts.overwrite /\ ~cli.opts.dryRun)
        => /\ \A p \in OutPaths : disk[p] # "absent" => disk'[p] = disk[p]
           /\ disk[OutputPath(cli.inputs[cli.i])] # "absent"
                 => cli'.failCount = cli.failCount + 1 ]_vars

\* C28: a failure of one input does not keep the loop from the other inputs:
\* every iteration of a run without --dry-run counts its input once, as a
\* success or as a failure, and writes no file for an input it counts as
\* failed; when the loop has ended successCount + failCount is the number of
\* inputs and the exit status is 1 exactly if failCount > 0.
C28_FailuresAreIsolated ==
    /\ [][ (cli.exit = "running" /\ cli'.i = cli.i + 1 /\ ~cli.opts.dryRun)
            => /\ cli'.successCount + cli'.failCount
                     = cli.successCount + cli.failCount + 1
               /\ cli'.successCount >= cli.successCount
               /\ cli'.failCount >= cli.failCount
               /\ cli'.failCount > cli.failCount => disk' = disk ]_vars
    /\ []((cli.exit # "running" /\ ~cli.opts.dryRun)
            => /\ cli.successCount + cli.failCount = Len(cli.inputs)
               /\ cli.exit = "1" <=> cli.failCount > 0)

(***************************************************************************)
(* Properties of getFileType (FileSpec)                                    *)
(***************************************************************************)

\* the extension of a file name, in lower case: the letters after its last dot,
\* for a name that has something before that dot
HasExtension(name, e) ==
    /\ Len(name) >= 2
    /\ Len(name) > 2 \/ name[1].text # ""
    /\ name[Len(name)].text = e

\* C16: whatever the case of its letters, a name with extension png, jpg, jpeg,
\* webp, gif or bmp is classified 'image', pdf 'pdf', docx 'docx' and doc 'doc';
\* every call on the same file returns the same classification, and a docx name
\* is never classified 'doc'.
C16_ClassifiedByExtension ==
    \A i \in 1 .. Len(fileType) :
        /\ (\E e \in {"png", "jpg", "jpeg", "webp", "gif", "bmp"} : HasExtension(file.name, e))
              => fileType[i] = "image"
        /\ HasExtension(file.name, "pdf") => fileType[i] = "pdf"
        /\ HasExtension(file.name, "docx") => fileType[i] = "docx"
        /\ HasExtension(file.name, "doc") => fileType[i] = "doc"
        /\ fileType[i] = fileType[1]

\* 'Document.PDF' has been classified twice
C16_Witness ==
    /\ file.name = << Seg("document", TRUE), Seg("pdf", TRUE) >>
    /\ Len(fileType) = 2
    /\ fileType[2] = "pdf"

(***************************************************************************)
(* Properties of the converter options (ConvSpec)                          *)
(***************************************************************************)

\* object b holds every entry of object a except those for the keys in `but`
KeepsExcept(a, b, but) == \A k \in DOMAIN a \ but : k \in DOMAIN b /\ b[k] = a[k]

\* C17: a converter built with no options has conversionMode 'embed' and
\* jpegQuality 92; every option given to the constructor or to createConverter
\* is the instance's value and every other default is kept; the options given to
\* a convertBuffer call are that call's values, every other value of the call is
\* the instance's, and the instance's options stay what the constructor made them.
C17_OptionPrecedence ==
    /\ DOMAIN conv.given = {}
          => conv.options.conversionMode = "embed" /\ conv.options.jpegQuality = 92
    /\ KeepsExcept(conv.given, conv.options, {})
    /\ KeepsExcept(DefaultOptions, conv.options, DOMAIN conv.given)
    /\ \A i \in 1 .. Len(calls) :
          /\ KeepsExcept(calls[i].given, calls[i].opts, {})
          /\ KeepsExcept(conv.options, calls[i].opts, DOMAIN calls[i].given)

\* a converter built with jpegQuality 80 used 75 in a call that was given 75 and
\* 80 again in the next call, which was given nothing
C17_Witness ==
    /\ "jpegQuality" \in DOMAIN conv.given
    /\ conv.given["jpegQuality"] = 80
    /\ Len(calls) = 2
    /\ "jpegQuality" \in DOMAIN calls[1].given
    /\ calls[1].opts["jpegQuality"] = 75
    /\ DOMAIN calls[2].given = {}
    /\ calls[2].opts["jpegQuality"] = 80

(***************************************************************************)
(* Properties of the web app (AppSpec)                                     *)
(***************************************************************************)

\* one multi-page PDF is the current file, its conversion with 'all pages' on
\* has settled and is what the app holds, and nothing else is going on
AllPagesConverted ==
    /\ app.currentFile.ext = "pdf"
    /\ app.currentFile.pages >= 2
    /\ app.settings.allPages
    /\ app.batchFiles = << >>
    /\ app.batchResults = Convert(app.currentFile, app.settings).value
    /\ app.currentSVG = app.batchResults[1].svg
    /\ app.jobs = {}
    /\ timers = {}

\* C18: when Download All is activated after one multi-page PDF has been
\* converted with 'all pages' on, it schedules exactly one download per page of
\* the PDF, each of that page's SVG.
C18_DownloadAllPerPage ==
    [][ (AllPagesConverted /\ DownloadAllSVGs)
        => /\ Cardinality(timers') = app.currentFile.pages
           /\ \A n \in 1 .. app.currentFile.pages :
                 \E t \in timers' : t.kind = "download" /\ t.content = app.batchResults[n].svg
      ]_vars

(***************************************************************************)
(* Properties of tracePaths step by step (WalkSpec, WalkFair)              *)
(***************************************************************************)

\* a tracePaths call is under way or over
Called == walk.pc \in {"scan", "walk", "done"}

\* C19: every pass through the loop of a walk that goes on to another pass
\* counts one step more; a walk never counts more than 4*W*H steps nor records
\* more than 4*W*H points; a walk that stops has come back to its start pixel,
\* or found no eligible neighbour, or has counted 4*W*H steps; no kept path has
\* more than 4*W*H points; and every call of tracePaths returns.
C19_WalksTerminate ==
    /\ [][ (walk.pc = "walk")
            => /\ walk'.wk.steps <= 4 * walk.w * walk.h
               /\ Len(walk'.wk.path) <= 4 * walk.w * walk.h
               /\ walk'.pc = "walk" => walk'.wk.steps = walk.wk.steps + 1
               /\ walk'.pc = "scan"
                     => \/ walk'.wk.cx = walk.startX /\ walk'.wk.cy = walk.startY
                        \/ ~walk'.wk.found
                        \/ walk'.wk.steps >= 4 * walk.w * walk.h
               /\ \A k \in 1 .. Len(walk'.paths) :
                     Len(walk'.paths[k]) <= 4 * walk.w * walk.h ]_vars
    /\ Called ~> walk.pc = "done"

\* a call has returned two paths: one of a walk that found no neighbour, one of
\* a walk of four steps or more that came back to its start
C19_Witness ==
    /\ walk.pc = "done"
    /\ \E k \in 1 .. Len(walk.paths) : Len(walk.paths[k]) = 1
    /\ \E k \in 1 .. Len(walk.paths) : Len(walk.paths[k]) >= 4

Adjacent4(p, q) ==
    \/ p.x = q.x /\ (p.y = q.y + 1 \/ q.y = p.y + 1)
    \/ p.y = q.y /\ (p.x = q.x + 1 \/ q.x = p.x + 1)

ClosedContour(p, mask, w, h) ==
    /\ \A k \in 1 .. Len(p) : IsEdge(mask, w, h, p[k].x, p[k].y)
    /\ \A k \in 1 .. Len(p) - 1 : Adjacent4(p[k], p[k + 1])
    /\ Len(p) >= 2 => Adjacent4(p[Len(p)], p[1])

\* C20: every path tracePaths keeps consists of set boundary pixels of the
\* mask, each 4-adjacent to the next, and the last 4-adjacent to the first when
\* the path has two points or more.
C20_PathsAreClosedContours ==
    Called => \A k \in 1 .. Len(walk.paths) :
                 ClosedContour(walk.paths[k], walk.mask, walk.w, walk.h)

\* a kept path runs along a filament one pixel wide and back: it visits a
\* pixel twice
C20_Witness ==
    /\ walk.pc = "done"
    /\ \E k \in 1 .. Len(walk.paths) :
          /\ Len(walk.paths[k]) >= 4
          /\ \E a, b \in 1 .. Len(walk.paths[k]) : a < b /\ walk.paths[k][a] = walk.paths[k][b]

\* the points of path p, as a set
PointsOf(p) == { p[k] : k \in 1 .. Len(p) }

\* C21: when tracePaths has returned, every boundary pixel of the mask has been
\* recorded by a walk, no pixel is in two of the returned paths, and no pixel
\* is twice in one path.
C21_VisitedOnce ==
    walk.pc = "done"
        => /\ \A i \in 0 .. walk.w * walk.h - 1 :
                 IsEdge(walk.mask, walk.w, walk.h, i % walk.w, i \div walk.w)
                    => walk.visited[i + 1] = 1
           /\ \A j, k \in 1 .. Len(walk.paths) :
                 j # k => PointsOf(walk.paths[j]) \cap PointsOf(walk.paths[k]) = {}
           /\ \A k \in 1 .. Len(walk.paths) :
                 Cardinality(PointsOf(walk.paths[k])) = Len(walk.paths[k])

(***************************************************************************)
(* Further properties of the quantizer (QuantSpec)                         *)
(***************************************************************************)

\* the positions of the buffer to which the indexer gives an index >= 0
IndexedPositions == { i \in 1 .. Len(data) : IndexOfPixel(data[i], palette) >= 0 }

\* C22: the pixels the quantizer builds the palette from are exactly the pixels
\* of the buffer to which the indexer gives a non-negative index, in buffer
\* order, whatever their alpha.
C22_PopulationIsIndexed ==
    qpc # "start"
        => /\ Len(pixels) = Cardinality(IndexedPositions)
           /\ \A i \in IndexedPositions :
                 /\ Cardinality({ j \in IndexedPositions : j <= i }) <= Len(pixels)
                 /\ SameRGB(pixels[Cardinality({ j \in IndexedPositions : j <= i })], data[i])

(***************************************************************************)
(* Properties of monochrome traces (MonoSpec)                              *)
(***************************************************************************)

\* C23: a monochrome trace turns every pixel of the buffer into white when its
\* luma 0.299 R + 0.587 G + 0.114 B is at or above the threshold and into black
\* otherwise, and keeps its alpha.
C23_MonochromeByLuma ==
    [][ Len(results') > Len(results)
        => /\ Len(tprocessed') = Len(imgd.data)
           /\ \A i \in 1 .. Len(imgd.data) :
                 tprocessed'[i] =
                    GrayOf(imgd.data[i],
                           IF Luma1000(imgd.data[i]) >= 1000 * options.threshold
                           THEN 255 ELSE 0) ]_vars

(***************************************************************************)
(* Properties of the emission order (TraceSpec)                            *)
(***************************************************************************)
LastDoc == results[Len(results)].doc

Emitted == Len(results) >= 1 /\ results[Len(results)].kind = "document"

\* the pixels of layer k and the palette indexes they are indexed to
LayerPixels(k) == { i \in 1 .. Len(tlayers[k].array) : tlayers[k].array[i] = 1 }

LayerIndexes(k) == { tindexed[i] : i \in LayerPixels(k) }

\* every point of the path element el is the centre of a pixel of layer k
DrawnOnLayer(el, k) ==
    \A n \in 1 .. Len(el.d) :
        \E i \in LayerPixels(k) :
            /\ el.d[n].x.units = InUnits((i - 1) % imgd.width, options)
            /\ el.d[n].y.units = InUnits((i - 1) \div imgd.width, options)

\* the pixels inside the rects of group el and the palette indexes they have
GroupPixels(el) ==
    { i \in 1 .. Len(tindexed) :
        /\ i <= imgd.width * imgd.height
        /\ HoldsPixel(el, (i - 1) % imgd.width, (i - 1) \div imgd.width, options) }

GroupIndexes(el) == { tindexed[i] : i \in GroupPixels(el) }

\* the browser document: layers in palette order, elements in layer order
BrowserOrder ==
    /\ \A k \in 1 .. Len(tlayers) :
          \E c \in 0 .. (Len(tpalette) - 1) :
              /\ LayerIndexes(k) = {c}
              /\ tlayers[k].color = tpalette[c + 1]
    /\ \A k1, k2 \in 1 .. Len(tlayers) :
          k1 < k2 => \A c1 \in LayerIndexes(k1), c2 \in LayerIndexes(k2) : c1 < c2
    /\ \E f \in [1 .. Len(LastDoc.elements) -> 1 .. Len(tlayers)] :
          /\ \A n1, n2 \in DOMAIN f : n1 < n2 => f[n1] <= f[n2]
          /\ \A n \in DOMAIN f :
                /\ LastDoc.elements[n].fill = tlayers[f[n]].color
                /\ DrawnOnLayer(LastDoc.elements[n], f[n])

\* the node document: one group per palette index that has pixels, in order
NodeOrder ==
    /\ \A n \in 1 .. Len(LastDoc.elements) :
          \E c \in 0 .. (Len(tpalette) - 1) :
              /\ GroupIndexes(LastDoc.elements[n]) = {c}
              /\ SameRGB(LastDoc.elements[n].fill, tpalette[c + 1])
    /\ \A n1, n2 \in 1 .. Len(LastDoc.elements) :
          n1 < n2 => \A c1 \in GroupIndexes(LastDoc.elements[n1]),
                        c2 \in GroupIndexes(LastDoc.elements[n2]) : c1 < c2

\* C24: the filled regions of the document follow the palette order: the regions
\* of palette entry i come before those of entry j when i < j, a palette index
\* no pixel is indexed to has no region, and every region is filled with the
\* colour of the palette entry its pixels are indexed to.
C24_EmissionFollowsPalette ==
    Emitted => IF impl = "browser" THEN BrowserOrder ELSE NodeOrder

C24_Witness ==
    /\ Emitted
    /\ impl = "browser"
    /\ Len(tlayers) = 2
    /\ Len(LastDoc.elements) = 2
    /\ LastDoc.elements[1].fill # LastDoc.elements[2].fill

(***************************************************************************)
(* Properties of the caller's buffer (TraceSpec)                           *)
(***************************************************************************)

\* C25: a trace in colour mode leaves every byte of the caller's pixel buffer
\* unchanged, with a blur radius above 0 (the blurred pixels go to a new buffer)
\* as well as with blur radius 0.
C25_BlurLeavesInput ==
    [][ (Len(results') > Len(results) /\ options.colorMode = "color")
        => imgd'.data = imgd.data ]_vars

(***************************************************************************)
(* Properties of the node rectangles (RectSpec)                            *)
(***************************************************************************)
\* the rects of palette index c that hold the pixel (x, y)
RectsHolding(c, x, y) ==
    { k \in 1 .. Len(colorRects.rects[c]) :
        /\ colorRects.rects[c][k].x <= x
        /\ x < colorRects.rects[c][k].x + colorRects.rects[c][k].w
        /\ colorRects.rects[c][k].y <= y
        /\ y < colorRects.rects[c][k].y + colorRects.rects[c][k].h }

RectInside(rc) ==
    /\ rc.x >= 0 /\ rc.y >= 0 /\ rc.w >= 1 /\ rc.h >= 1
    /\ rc.x + rc.w <= colorRects.width
    /\ rc.y + rc.h <= colorRects.height

IndexAt(x, y) == colorRects.indexed[y * colorRects.width + x + 1]

\* C27: the rects createColorRects returns for palette index c, after mergeRects,
\* lie inside the image and cover exactly the pixels of index c, each of them
\* once: no rect holds a pixel of another index or a transparent pixel, and
\* over all indexes every opaque pixel is covered exactly once.
C27_RectsCoverExactly ==
    colorRects.pc = "done" =>
        /\ \A c \in DOMAIN colorRects.rects :
              /\ \A k \in 1 .. Len(colorRects.rects[c]) : RectInside(colorRects.rects[c][k])
              /\ \A x \in 0 .. (colorRects.width - 1), y \in 0 .. (colorRects.height - 1) :
                    Cardinality(RectsHolding(c, x, y)) = IF IndexAt(x, y) = c THEN 1 ELSE 0
        /\ \A x \in 0 .. (colorRects.width - 1), y \in 0 .. (colorRects.height - 1) :
              Cardinality({ c \in DOMAIN colorRects.rects : RectsHolding(c, x, y) # {} })
                  = IF IndexAt(x, y) >= 0 THEN 1 ELSE 0

\* rows of two runs each, rects of two rows, a transparent pixel and two indexes
C27_Witness ==
    /\ colorRects.pc = "done"
    /\ colorRects.width = 3
    /\ colorRects.height = 2
    /\ \E i \in DOMAIN colorRects.indexed : colorRects.indexed[i] = -1
    /\ Len(colorRects.rects[0]) = 2
    /\ \E k \in 1 .. 2 : colorRects.rects[0][k].h = 2
    /\ 1 \in DOMAIN colorRects.rects
    /\ Len(colorRects.rects[1]) >= 1

(***************************************************************************)
(* Properties of the web app's current SVG (AppSpec)                       *)
(***************************************************************************)
\* no processFile or updatePreview is awaiting and no preview timer is pending
PreviewQuiescent ==
    /\ \A job \in app.jobs : job.kind \notin {"processFile", "updatePreview"}
    /\ \A t \in timers : t.kind # "preview"

\* what processFile and updatePreview show for a conversion that succeeded
ShownSVG(r) == IF r.isArray THEN r.value[1].svg ELSE OptimizeSVG(r.value[1].svg)

\* C29: once no conversion is in flight and no preview timer is pending, the
\* current SVG is the conversion of the most recently selected file with the
\* most recent settings: a conversion that finishes late does not replace the
\* result of a conversion started after it.
C29_CurrentSVGIsLatest ==
    (/\ PreviewQuiescent
     /\ app.currentFile # NoFile
     /\ ~Convert(app.currentFile, app.settings).error)
        => app.currentSVG = ShownSVG(Convert(app.currentFile, app.settings))

(***************************************************************************)
(* Properties of the web app's batch mode (AppSpec)                        *)
(***************************************************************************)
BatchRunning(a) == \E job \in a.jobs : job.kind = "convertBatch"

\* batchResults has one entry per file of batchFiles, in the same order, each
\* a success with results or a failure with an error message
ResultsMatchFiles(a) ==
    /\ Len(a.batchResults) = Len(a.batchFiles)
    /\ \A k \in 1 .. Len(a.batchResults) :
          /\ "file" \in DOMAIN a.batchResults[k]
          /\ a.batchResults[k].file = a.batchFiles[k]
          /\ "success" \in DOMAIN a.batchResults[k]
          /\ IF a.batchResults[k].success
             THEN "result" \in DOMAIN a.batchResults[k]
             ELSE "error" \in DOMAIN a.batchResults[k]

\* C30: when the last of the started convertBatch runs completes, batchResults
\* holds exactly one entry per file currently in batchFiles, in the same order,
\* each referring to that file and marked success or failure, whatever removals,
\* Clear clicks and Convert All clicks came while a conversion was awaited.
C30_BatchResultsMatchFiles ==
    [][ (BatchRunning(app) /\ ~BatchRunning(app')) => ResultsMatchFiles(app') ]_vars

====
